---- MODULE Spec2Model ----
(***************************************************************************)
(* Model of the document chunking / embedding / cosine-retrieval pipeline  *)
(* of libra-ai:                                                            *)
(*   backend/juris/patent_doc_processor.py  (PatentDocumentProcessor,      *)
(*                                           PatentRAGRetriever)           *)
(*   backend/lexi/legal_doc_processor.py    (LegalDocumentProcessor,       *)
(*                                           LegalRAGRetriever)            *)
(*                                                                         *)
(* with the callers of the retrievers, the e-mail ingestion, the           *)
(* orchestrator and the Donna workflow:                                    *)
(*   backend/lexi/legal_chat_api.py         (lifespan, the endpoints)      *)
(*   backend/juris/patent_api.py            (lifespan, the endpoints,      *)
(*                                           PatentSearchService)          *)
(*   backend/scripts/ingest_enron_emails.py (EnronEmailIngester)           *)
(*   backend/orchestrator/orchestrator.py   (orchestrate_query,            *)
(*                                           OrchestratorService)          *)
(*   backend/donna/services.py              (run_workflow_sse)             *)
(*                                                                         *)
(* Strings are sequences of one-character strings over the alphabet        *)
(* {"a", ".", " "}: "a" stands for any word character, "." for a sentence  *)
(* terminator (the class [.!?] of the split pattern) and " " for           *)
(* whitespace.                                                             *)
(*                                                                         *)
(* The specifications share the module and its variables; each one's       *)
(* initial predicate holds the variables of the others at rest:            *)
(*   SpecChunk      the chunkers and the per-chunk part of                 *)
(*                  process_document                                       *)
(*   SpecBuild      process_*_documents and main: directory to pickle file *)
(*   SpecClean      the text cleaning functions, applied twice             *)
(*   SpecSearch     the retriever: construction from a pickle, then        *)
(*                  searches and the API handlers that search              *)
(*   SpecIngest     the document queue, its producer and the embedding     *)
(*                  workers of the e-mail ingestion                        *)
(*   FairIngest     SpecIngest with every coroutine scheduled fairly       *)
(*   SpecApi        the API processes: import, lifespan, search, chat and  *)
(*                  reload against the module-level retriever              *)
(*   SpecEmailChunk chunk_text of the e-mail ingestion                     *)
(*   SpecOrch       POST /orchestrator and the Filora action analysis      *)
(*   SpecWorkflow   the event stream of run_workflow_sse                   *)
(***************************************************************************)
EXTENDS Integers, Sequences, FiniteSets, TLC

\* ------------------------------------------------------------------ bounds
MaxTextLen == 5
MaxChunkSize == 3
MaxChunks == 2
Dim == 2

\* ------------------------------------------------------- program constants
\* range(i-1, max(0, i-10), -1): the overlap walk looks back at most this far
OverlapLookback == 10
\* "len(chunk.strip()) > 10" of the e-mail chunker: the length under which a
\* chunk counts as noise
MinChunkLength == 10

Alphabet == {"a", ".", " "}
EmptyStr == << >>

Max(a, b) == IF a >= b THEN a ELSE b
Min(a, b) == IF a <= b THEN a ELSE b

\* ------------------------------------------------------------ str helpers
IsSpace(c) == c = " "
IsTerminator(c) == c = "."

RECURSIVE LStrip(_)
LStrip(s) ==
    IF s = EmptyStr THEN EmptyStr
    ELSE IF IsSpace(Head(s)) THEN LStrip(Tail(s)) ELSE s

RECURSIVE RStrip(_)
RStrip(s) ==
    IF s = EmptyStr THEN EmptyStr
    ELSE IF IsSpace(s[Len(s)]) THEN RStrip(SubSeq(s, 1, Len(s) - 1)) ELSE s

\* str.strip()
Strip(s) == RStrip(LStrip(s))

\* s[k:] for a 0-based k >= 0
From(s, k) == SubSeq(s, k + 1, Len(s))

\* str.find('. '): 0-based position of the first ". ", or -1
Find(s) ==
    LET hits == {p \in 1..(Len(s) - 1) : s[p] = "." /\ s[p + 1] = " "}
    IN  IF hits = {} THEN -1
        ELSE (CHOOSE p \in hits : \A r \in hits : p <= r) - 1

\* " ".join(seq)
RECURSIVE Join(_)
Join(ss) ==
    IF ss = << >> THEN EmptyStr
    ELSE IF Len(ss) = 1 THEN ss[1]
    ELSE ss[1] \o <<" ">> \o Join(Tail(ss))

\* re.split(r'(?<=[.!?])\s+', text): cut at every maximal whitespace run
\* that directly follows a terminator; the run itself is dropped.
RECURSIVE SplitSentences(_)
SplitSentences(s) ==
    LET cuts == {p \in 2..Len(s) : IsSpace(s[p]) /\ IsTerminator(s[p - 1])}
    IN  IF cuts = {} THEN <<s>>
        ELSE LET p == CHOOSE c \in cuts : \A r \in cuts : c <= r
                 rest == LStrip(From(s, p - 1))
             IN  <<SubSeq(s, 1, p - 1)>> \o SplitSentences(rest)

\* All strings over the alphabet of length at most n
RECURSIVE Strings(_)
Strings(n) ==
    IF n = 0 THEN {EmptyStr}
    ELSE LET shorter == Strings(n - 1)
         IN  shorter \cup {Append(s, c) : s \in {t \in shorter : Len(t) = n - 1},
                                          c \in Alphabet}

\* What clean_patent_text / clean_text leave behind as far as whitespace
\* goes: runs collapsed to one space, nothing leading or trailing.
IsCleanText(s) ==
    /\ s = Strip(s)
    /\ \A p \in 1..(Len(s) - 1) : ~(IsSpace(s[p]) /\ IsSpace(s[p + 1]))

\* ------------------------------------------------------------ text cleaning
\* The cleaning functions are modelled on sequences over a wider alphabet.
\* Besides "a", "." and " " it has "A" (an upper-case letter), "1" (a
\* digit), "#" (a character that is neither \w nor \s nor allowed
\* punctuation), and two multi-character tokens that only occur whole:
\* "---" and "Page", the pieces of the page marker extract_text_from_pdf
\* writes.
IsDigit(c) == c = "1"
EndsLower(c) == c \in {"a", "Page"}
StartsUpper(c) == c \in {"A", "Page"}
IsWordChar(c) == c \in {"a", "A", "1", "Page"}
\* [^\w\s\.\,\;\:\!\?\(\)\[\]\-\"\']
IsOtherChar(c) == c = "#"

\* re.sub(r'\s+', ' ', text)
RECURSIVE CollapseWhitespace(_)
CollapseWhitespace(s) ==
    IF s = EmptyStr THEN EmptyStr
    ELSE IF IsSpace(Head(s)) THEN <<" ">> \o CollapseWhitespace(LStrip(Tail(s)))
    ELSE <<Head(s)>> \o CollapseWhitespace(Tail(s))

\* length of the longest run of digits s starts with
RECURSIVE DigitRun(_)
DigitRun(s) ==
    IF s # EmptyStr /\ IsDigit(Head(s)) THEN 1 + DigitRun(Tail(s)) ELSE 0

\* length of the match of r'--- Page \d+ ---' at the start of s, or 0
PageMarkerLen(s) ==
    IF Len(s) >= 4 /\ s[1] = "---" /\ s[2] = " " /\ s[3] = "Page" /\ s[4] = " "
    THEN LET d == DigitRun(From(s, 4))
         IN  IF d >= 1 /\ Len(s) >= d + 6 /\ s[d + 5] = " " /\ s[d + 6] = "---"
             THEN d + 6 ELSE 0
    ELSE 0

\* re.sub(r'--- Page \d+ ---', '', text)
RECURSIVE RemovePageMarkers(_)
RemovePageMarkers(s) ==
    IF s = EmptyStr THEN EmptyStr
    ELSE IF PageMarkerLen(s) > 0 THEN RemovePageMarkers(From(s, PageMarkerLen(s)))
    ELSE <<Head(s)>> \o RemovePageMarkers(Tail(s))

\* re.sub(r'(\d+\.)\s+', r'\1 ', text)
RECURSIVE CleanClaimNumbering(_)
CleanClaimNumbering(s) ==
    IF s = EmptyStr THEN EmptyStr
    ELSE LET d == DigitRun(s)
         IN  IF d >= 1 /\ Len(s) >= d + 2 /\ s[d + 1] = "." /\ IsSpace(s[d + 2])
             THEN SubSeq(s, 1, d + 1) \o <<" ">>
                  \o CleanClaimNumbering(LStrip(From(s, d + 1)))
             ELSE <<Head(s)>> \o CleanClaimNumbering(Tail(s))

\* re.sub(r'[^\w\s\.\,\;\:\!\?\(\)\[\]\-\"\']', ' ', text)
ReplaceOtherChars(s) == [p \in 1..Len(s) |-> IF IsOtherChar(s[p]) THEN " " ELSE s[p]]

\* ' '.join(text.split())
JoinSplit(s) == Strip(CollapseWhitespace(s))

\* clean_patent_text.  Once whitespace is collapsed no "\n" is left, and
\* the alphabet cannot spell "U.S. Patent" or "Patent No.", so the
\* substitutions of lines 77, 80 and 81 find no match and are left out.
CleanPatentText(t) ==
    IF t = EmptyStr THEN EmptyStr
    ELSE Strip(JoinSplit(ReplaceOtherChars(CleanClaimNumbering(
                 RemovePageMarkers(CollapseWhitespace(t))))))

\* re.sub(r'([a-z])([A-Z])', r'\1 \2', text)
RECURSIVE SplitMergedWords(_)
SplitMergedWords(s) ==
    IF Len(s) <= 1 THEN s
    ELSE IF EndsLower(s[1]) /\ StartsUpper(s[2])
         THEN <<s[1], " ">> \o SplitMergedWords(Tail(s))
         ELSE <<s[1]>> \o SplitMergedWords(Tail(s))

\* length of the match of r'\d+\.\d+' at the start of s, or 0
SectionNumberLen(s) ==
    LET d == DigitRun(s)
    IN  IF d >= 1 /\ Len(s) >= d + 2 /\ s[d + 1] = "."
             /\ DigitRun(From(s, d + 1)) >= 1
        THEN d + 1 + DigitRun(From(s, d + 1)) ELSE 0

\* re.sub(r'(\w)(\d+\.\d+)', r'\1 \2', text)
RECURSIVE SeparateSectionNumbers(_)
SeparateSectionNumbers(s) ==
    IF s = EmptyStr THEN EmptyStr
    ELSE LET n == SectionNumberLen(Tail(s))
         IN  IF IsWordChar(Head(s)) /\ n > 0
             THEN <<Head(s), " ">> \o SubSeq(s, 2, n + 1)
                  \o SeparateSectionNumbers(From(s, n + 1))
             ELSE <<Head(s)>> \o SeparateSectionNumbers(Tail(s))

\* clean_text of the legal processor.  After the first substitution no "\n"
\* is left for the page-marker pattern of line 72 to match, and the quote
\* replacements of lines 79-80 map each quote to itself.
CleanLegalText(t) ==
    Strip(SeparateSectionNumbers(SplitMergedWords(CollapseWhitespace(t))))

\* All sequences over the alphabet A of length at most n
RECURSIVE StringsOver(_, _)
StringsOver(A, n) ==
    IF n = 0 THEN {EmptyStr}
    ELSE LET shorter == StringsOver(A, n - 1)
         IN  shorter \cup {Append(s, c) : s \in {t \in shorter : Len(t) = n - 1},
                                          c \in A}


\* ------------------------------------------------------------------ state
VARIABLES
    \* chunker and process_document (SpecChunk)
    impl,             \* "patent" (chunk_patent_text) or "legal" (chunk_text)
    text,             \* the text handed to the chunker
    chunk_size,       \* parameter chunk_size
    overlap,          \* parameter overlap
    sentences,        \* local: the split sentences
    i,                \* local: 0-based position of the for loop
    current_chunk,    \* local
    current_size,     \* local
    chunk_index,      \* local
    sentence_index,   \* local (patent only)
    chunks,           \* local: the chunks emitted so far
    overlaps,         \* per emitted chunk, the overlap text it was seeded with
    current_overlap,  \* the overlap text the chunk being built was seeded with
    processed_chunks, \* process_document: the chunks with their embeddings
    pdf_path,         \* process_document: parameter pdf_path
    document_name,    \* process_document: local document_name
    embedding_failed, \* per processed chunk: did generate_embedding absorb an
                      \* exception of the collaborator (history, not program state)
    pc,
    \* retriever (SpecSearch)
    pickle,           \* the persisted knowledge base
    retriever,        \* the retriever instance, or NoRetriever
    call,             \* the last constructor / search call and how it ended
    \* API handlers that consume search results (SpecSearch)
    handler,          \* the handler that is running and where it stands
    local_context,    \* get_local_context: local local_context
    local_patents,    \* get_local_similar_patents: local local_patents
    \* text cleaning applied twice (SpecClean)
    uncleaned,        \* the text handed to the cleaning function
    cleaned,          \* what the successive applications returned
    \* e-mail ingestion: run_ingestion and its workers (SpecIngest)
    email_chunks,     \* the chunk documents process_email_batch will enqueue
    doc_queue,        \* self.doc_queue: the items not yet taken, oldest first
    unfinished_tasks, \* the queue's count of items put and not yet task_done
    producer,         \* run_ingestion: where it stands
    workers,          \* per worker: where it stands, its batch, its attempt
    convex_docs,      \* the batches handed to Convex, in order
    embedded_chunks,  \* self.stats["embedded_chunks"]
    errors,           \* self.stats["errors"]
    taken,            \* per document: the workers that took it (history)
    \* the API processes: patent_api.py and legal_chat_api.py (SpecApi)
    app,              \* the process: "import", "startup" or "serving"
    service_retriever, \* patent_service.patent_retriever
    response,         \* what the last request was answered with
    swapped,          \* a reload has replaced a loaded retriever (history)
    \* the e-mail chunker (SpecEmailChunk); it shares text, chunk_size,
    \* overlap, chunks and pc with the other chunkers
    start_pos,        \* local start
    valid_chunks,     \* what chunk_text returned
    \* POST /orchestrator (SpecOrch)
    orch_pc,          \* where orchestrate_query stands
    request,          \* the OrchestratorRequest
    selected_agent,   \* local of orchestrate_query
    action_analysis,  \* local of query_agent: the analysis it acted on
    posted,           \* what query_agent posted to the agent
    agent_response,   \* the AgentResponse
    \* POST /donna/workflow (SpecWorkflow)
    wf_pc,            \* where the generator run_workflow_sse stands
    events,           \* the events yielded so far
    send_email,       \* argument of run_workflow_sse
    allow_external,   \* ALLOW_EXTERNAL_EMAIL read as a flag
    message_id,       \* id of the initial message, or None
    questions_json,   \* what the questions step left
    expert,           \* the selected expert
    sent_flag,        \* local of run_workflow_sse
    outbox,           \* the messages handed to the AgentMail client
    \* process_patent_documents / process_legal_documents and main (SpecBuild)
    directory,        \* the data directory: does it exist, and its entries in
                      \* listing order, each with what extract_text_from_pdf
                      \* returns for it
    pdf_files,        \* local: list(path.glob("*.pdf"))
    file_index,       \* 0-based position of "for pdf_file in pdf_files"
    all_documents,    \* local
    all_chunks,       \* local
    all_failed,       \* embedding_failed of the chunks of all_chunks
    knowledge_base,   \* the returned knowledge base, or NoKnowledgeBase
    outcome           \* how main ended

chunkVars == <<impl, text, chunk_size, overlap, sentences, i, current_chunk,
               current_size, chunk_index, sentence_index, chunks, overlaps,
               current_overlap, processed_chunks, pdf_path, document_name,
               embedding_failed, pc>>
apiVars == <<handler, local_context, local_patents>>
searchVars == <<pickle, retriever, call, apiVars>>
buildVars == <<directory, pdf_files, file_index, all_documents, all_chunks,
               all_failed, knowledge_base, outcome>>
cleanVars == <<uncleaned, cleaned>>
\* the variables of the specifications that neither chunk, build nor search
ingestVars == <<email_chunks, doc_queue, unfinished_tasks, producer, workers,
                convex_docs, embedded_chunks, errors, taken>>
serveVars == <<app, service_retriever, response, swapped>>
emailChunkVars == <<start_pos, valid_chunks>>
orchVars == <<orch_pc, request, selected_agent, action_analysis, posted,
              agent_response>>
wfVars == <<wf_pc, events, send_email, allow_external, message_id,
            questions_json, expert, sent_flag, outbox>>
restVars == <<serveVars, emailChunkVars, orchVars, wfVars>>
otherVars == <<cleanVars, ingestVars, restVars>>
vars == <<chunkVars, searchVars, buildVars, otherVars>>
\* what the chunker and process_document leave alone
outsideChunker == <<searchVars, buildVars, otherVars>>
\* what the retriever leaves alone
outsideSearch == <<chunkVars, buildVars, otherVars>>

\* ---------------------------------------------------------------- vectors
EmbVals == {0, 1}
Vectors == [1..Dim -> EmbVals]
ZeroVector == [d \in 1..Dim |-> 0]
ModelName == "text-embedding-3-small"
DocumentName == <<"d", "o", "c">>
DocumentPath == <<"d", "o", "c", ".", "p", "d", "f">>

\* ============================================================== chunkers

\* The seed of the next chunk in chunk_patent_text: walk back from sentence
\* i-1 while the summed length stays within overlap, never reaching index
\* max(0, i-10).  j and lo are 0-based as in the source.
RECURSIVE OverlapWalk(_, _, _, _, _, _)
OverlapWalk(sents, j, lo, ov, temp_overlap, acc) ==
    IF j <= lo THEN acc
    ELSE IF temp_overlap + Len(sents[j + 1]) <= ov
         THEN OverlapWalk(sents, j - 1, lo, ov,
                          temp_overlap + Len(sents[j + 1]), <<sents[j + 1]>> \o acc)
         ELSE acc

OverlapSentences(sents, idx, ov) ==
    OverlapWalk(sents, idx - 1, Max(0, idx - OverlapLookback), ov, 0, << >>)

\* LegalDocumentProcessor._get_overlap_text.  text[-overlap_size:] is the
\* whole text when overlap_size = 0 (Python's -0 is 0).
GetOverlapText(t, overlap_size) ==
    IF Len(t) <= overlap_size THEN t
    ELSE LET overlap_text == IF overlap_size = 0 THEN t
                             ELSE From(t, Len(t) - overlap_size)
             sentence_start == Find(overlap_text)
         IN  IF sentence_start > 0 THEN From(overlap_text, sentence_start + 2)
             ELSE overlap_text

\* Mutation of PatentChunk: the index counted from 1.
PatentChunkOneBased == [text |-> Strip(current_chunk), index |-> chunk_index + 1,
                        size |-> current_size, start_sentence |-> sentence_index]

PatentChunk == [text |-> Strip(current_chunk), index |-> chunk_index,
                size |-> current_size, start_sentence |-> sentence_index]

LegalChunk == [index |-> chunk_index, text |-> Strip(current_chunk),
               size |-> current_size,
               start_sentence |-> (chunk_index * (chunk_size - overlap)) \div 100]

\* Entry of the chunker: the empty-text guard (patent only) and the split.
ChunkerStart ==
    /\ pc = "start"
    /\ IF impl = "patent" /\ text = EmptyStr
       THEN /\ pc' = "embed"
            /\ UNCHANGED sentences
       ELSE /\ sentences' = SplitSentences(text)
            /\ pc' = "loop"
    /\ UNCHANGED <<impl, text, chunk_size, overlap, i, current_chunk, current_size,
                   chunk_index, sentence_index, chunks, overlaps, current_overlap,
                   processed_chunks>>
    /\ UNCHANGED <<pdf_path, document_name, embedding_failed>>
    /\ UNCHANGED outsideChunker

\* One iteration of the for loop of chunk_patent_text.
PatentLoopBody(sentence) ==
    LET sentence_length == Len(sentence)
        closing == current_size + sentence_length > chunk_size
                   /\ current_chunk # EmptyStr
        overlap_sentences == IF closing /\ overlap > 0
                             THEN OverlapSentences(sentences, i, overlap)
                             ELSE << >>
        seeded == IF overlap_sentences # << >>
                  THEN Join(overlap_sentences) \o <<" ">> ELSE EmptyStr
        chunk0 == IF closing THEN seeded ELSE current_chunk
        size0 == IF closing THEN Len(seeded) ELSE current_size
    IN  /\ chunks' = IF closing THEN Append(chunks, PatentChunk) ELSE chunks
        /\ overlaps' = IF closing THEN Append(overlaps, current_overlap)
                       ELSE overlaps
        /\ current_overlap' = IF closing THEN seeded ELSE current_overlap
        /\ chunk_index' = IF closing THEN chunk_index + 1 ELSE chunk_index
        /\ sentence_index' =
              IF ~closing THEN sentence_index
              ELSE IF overlap > 0 THEN Max(0, i - Len(overlap_sentences))
              ELSE i
        /\ current_chunk' = IF chunk0 # EmptyStr
                            THEN chunk0 \o <<" ">> \o sentence ELSE sentence
        /\ current_size' = size0 + sentence_length

PatentStep ==
    /\ pc = "loop"
    /\ impl = "patent"
    /\ i < Len(sentences)
    /\ PatentLoopBody(sentences[i + 1])
    /\ i' = i + 1
    /\ UNCHANGED <<impl, text, chunk_size, overlap, sentences, processed_chunks, pc>>
    /\ UNCHANGED <<pdf_path, document_name, embedding_failed>>
    /\ UNCHANGED outsideChunker

\* One iteration of the for loop of chunk_text.
LegalLoopBody(sentence) ==
    LET sentence_size == Len(sentence)
        closing == current_size + sentence_size > chunk_size
                   /\ current_chunk # EmptyStr
        overlap_text == GetOverlapText(current_chunk, overlap)
    IN  IF closing
        THEN /\ chunks' = Append(chunks, LegalChunk)
             /\ overlaps' = Append(overlaps, current_overlap)
             /\ current_overlap' = overlap_text
             /\ current_chunk' = overlap_text \o <<" ">> \o sentence
             /\ current_size' = Len(overlap_text) + 1 + Len(sentence)
             /\ chunk_index' = chunk_index + 1
        ELSE /\ current_chunk' = IF current_chunk # EmptyStr
                                 THEN current_chunk \o <<" ">> \o sentence
                                 ELSE sentence
             /\ current_size' = current_size + sentence_size
             /\ UNCHANGED <<chunks, overlaps, current_overlap, chunk_index>>

LegalStep ==
    /\ pc = "loop"
    /\ impl = "legal"
    /\ i < Len(sentences)
    /\ LegalLoopBody(sentences[i + 1])
    /\ i' = i + 1
    /\ UNCHANGED <<impl, text, chunk_size, overlap, sentences, sentence_index,
                   processed_chunks, pc>>
    /\ UNCHANGED <<pdf_path, document_name, embedding_failed>>
    /\ UNCHANGED outsideChunker

\* After the loop: the final chunk.  chunk_patent_text tests
\* current_chunk.strip(), chunk_text tests current_chunk.
\* Mutation of HasFinalChunk: the buffer left after the loop is not flushed.
HasFinalChunkNever == FALSE

HasFinalChunk ==
    IF impl = "patent" THEN Strip(current_chunk) # EmptyStr
    ELSE current_chunk # EmptyStr

ChunkerFinish ==
    /\ pc = "loop"
    /\ i = Len(sentences)
    /\ IF HasFinalChunk
       THEN /\ chunks' = Append(chunks,
                                IF impl = "patent" THEN PatentChunk ELSE LegalChunk)
            /\ overlaps' = Append(overlaps, current_overlap)
       ELSE UNCHANGED <<chunks, overlaps>>
    /\ pc' = "embed"
    /\ UNCHANGED <<impl, text, chunk_size, overlap, sentences, i, current_chunk,
                   current_size, chunk_index, sentence_index, current_overlap,
                   processed_chunks>>
    /\ UNCHANGED <<pdf_path, document_name, embedding_failed>>
    /\ UNCHANGED outsideChunker


\* ===================================================== process_document

\* Mutation of GenerateEmbedding: nothing put in place of the vector that
\* was not obtained.
GenerateEmbeddingEmpty(ok, v) == IF ok THEN v ELSE << >>

\* generate_embedding: the collaborator's vector, or the zero vector when
\* the call raised.
GenerateEmbedding(ok, v) == IF ok THEN v ELSE ZeroVector

\* str(n) for n >= 0: the decimal digits
Digit(d) == <<"0", "1", "2", "3", "4", "5", "6", "7", "8", "9">>[d + 1]
RECURSIVE Str(_)
Str(n) == IF n < 10 THEN <<Digit(n)>> ELSE Str(n \div 10) \o <<Digit(n % 10)>>

\* f"{document_name}_chunk_{chunk['index']}"
ChunkId(name, index) ==
    name \o <<"_", "c", "h", "u", "n", "k", "_">> \o Str(index)

\* The chunk record process_document builds.
ProcessedChunk(name, path, chunk, embedding) ==
    [chunk_id |-> ChunkId(name, chunk.index),
     document_name |-> name,
     text |-> chunk.text,
     embedding |-> embedding,
     metadata |-> [chunk_index |-> chunk.index,
                   size |-> chunk.size,
                   document_path |-> path,
                   start_sentence |-> chunk.start_sentence]]

\* One iteration of "for i, chunk in enumerate(chunks)" in process_document.
ProcessChunk ==
    /\ pc = "embed"
    /\ Len(processed_chunks) < Len(chunks)
    /\ \E ok \in BOOLEAN, v \in Vectors :
          /\ processed_chunks' =
                Append(processed_chunks,
                       ProcessedChunk(document_name, pdf_path,
                                      chunks[Len(processed_chunks) + 1],
                                      GenerateEmbedding(ok, v)))
          /\ embedding_failed' = Append(embedding_failed, ~ok)
    /\ UNCHANGED <<impl, text, chunk_size, overlap, sentences, i, current_chunk,
                   current_size, chunk_index, sentence_index, chunks, overlaps,
                   current_overlap, pc>>
    /\ UNCHANGED <<pdf_path, document_name>>
    /\ UNCHANGED outsideChunker

\* process_document returns the document record.
ProcessDocumentReturn ==
    /\ pc = "embed"
    /\ Len(processed_chunks) = Len(chunks)
    /\ pc' = "done"
    /\ UNCHANGED <<impl, text, chunk_size, overlap, sentences, i, current_chunk,
                   current_size, chunk_index, sentence_index, chunks, overlaps,
                   current_overlap, processed_chunks>>
    /\ UNCHANGED <<pdf_path, document_name, embedding_failed>>
    /\ UNCHANGED outsideChunker

NoRetriever == [kind |-> "none"]
NoCall ==
    [op |-> "none", query |-> EmptyStr, top_k |-> 0, collaborator_calls |-> 0,
     query_embedding |-> << >>, outcome |-> "none", results |-> << >>]

NoHandler == [name |-> "none", stage |-> "none"]

\* No API handler is running.
ApiIdle ==
    /\ handler = NoHandler
    /\ local_context = << >>
    /\ local_patents = << >>

\* No cleaning is under way.
CleanIdle ==
    /\ uncleaned = EmptyStr
    /\ cleaned = << >>

\* No ingestion is under way.
IngestIdle ==
    /\ email_chunks = << >>
    /\ doc_queue = << >>
    /\ unfinished_tasks = 0
    /\ producer = [pc |-> "none", next |-> 0, sentinels |-> 0]
    /\ workers = << >>
    /\ convex_docs = << >>
    /\ embedded_chunks = 0
    /\ errors = 0
    /\ taken = << >>

NoKnowledgeBase == [kind |-> "none"]
NoFile == [kind |-> "absent"]

NoResponse == [endpoint |-> "none", status |-> 0]

\* No API process runs.
ServeIdle ==
    /\ app = "none"
    /\ service_retriever = NoRetriever
    /\ response = NoResponse
    /\ swapped = FALSE

\* The e-mail chunker has not run.
EmailChunkIdle ==
    /\ start_pos = 0
    /\ valid_chunks = << >>

NoRequest == [query |-> EmptyStr]
NoAnalysis == [endpoint |-> "none"]
NothingPosted == [url |-> "none"]
NoAgentResponse == [agent_name |-> "none"]

\* No orchestrator request is being handled.
OrchIdle ==
    /\ orch_pc = "none"
    /\ request = NoRequest
    /\ selected_agent = "none"
    /\ action_analysis = NoAnalysis
    /\ posted = NothingPosted
    /\ agent_response = NoAgentResponse

\* The questions_json run_workflow_sse starts with: a dict.
DefaultQuestions == [type |-> "dict", from |-> "default"]

\* No workflow stream is running.
WorkflowIdle ==
    /\ wf_pc = "none"
    /\ events = << >>
    /\ send_email = FALSE
    /\ allow_external = FALSE
    /\ message_id = "None"
    /\ questions_json = DefaultQuestions
    /\ expert = [email |-> "None"]
    /\ sent_flag = FALSE
    /\ outbox = << >>

\* The specifications added last are at rest.
RestIdle == ServeIdle /\ EmailChunkIdle /\ OrchIdle /\ WorkflowIdle

\* Nothing of the build has run: the values the variables of the build have
\* in the specifications that do not build.
BuildIdle ==
    /\ directory = [exists |-> FALSE, entries |-> << >>]
    /\ pdf_files = << >>
    /\ file_index = 0
    /\ all_documents = << >>
    /\ all_chunks = << >>
    /\ all_failed = << >>
    /\ knowledge_base = NoKnowledgeBase
    /\ outcome = "none"

InitChunk ==
    /\ impl \in {"patent", "legal"}
    /\ text \in Strings(MaxTextLen)
    /\ chunk_size \in 1..MaxChunkSize
    /\ overlap \in 0..(chunk_size - 1)
    /\ sentences = << >>
    /\ i = 0
    /\ current_chunk = EmptyStr
    /\ current_size = 0
    /\ chunk_index = 0
    /\ sentence_index = 0
    /\ chunks = << >>
    /\ overlaps = << >>
    /\ current_overlap = EmptyStr
    /\ processed_chunks = << >>
    /\ pdf_path = DocumentPath
    /\ document_name = DocumentName
    /\ embedding_failed = << >>
    /\ pc = "start"
    /\ pickle = [all_chunks |-> << >>, metadata |-> [embedding_model |-> ModelName]]
    /\ retriever = NoRetriever
    /\ call = NoCall
    /\ ApiIdle
    /\ CleanIdle
    /\ IngestIdle
    /\ RestIdle
    /\ BuildIdle

NextChunk ==
    \/ ChunkerStart
    \/ PatentStep
    \/ LegalStep
    \/ ChunkerFinish
    \/ ProcessChunk
    \/ ProcessDocumentReturn

SpecChunk == InitChunk /\ [][NextChunk]_vars


\* ======================= process_patent_documents / process_legal_documents

\* str.rfind('.'): 0-based position of the last ".", or -1
RFindDot(s) ==
    LET hits == {p \in 1..Len(s) : s[p] = "."}
    IN  IF hits = {} THEN -1
        ELSE (CHOOSE p \in hits : \A r \in hits : r <= p) - 1

\* Path(pdf_path).stem: the name without its last suffix; a name whose only
\* "." is its first or its last character has no suffix.
Stem(name) ==
    LET k == RFindDot(name)
    IN  IF 0 < k /\ k < Len(name) - 1 THEN SubSeq(name, 1, k) ELSE name

PdfSuffix == <<".", "p", "d", "f">>

\* does the name match the pattern "*.pdf"
MatchesPdf(name) ==
    /\ Len(name) >= Len(PdfSuffix)
    /\ SubSeq(name, Len(name) - Len(PdfSuffix) + 1, Len(name)) = PdfSuffix

\* list(path.glob("*.pdf")) on the listing of the directory
Glob(entries) == SelectSeq(entries, LAMBDA e : MatchesPdf(e.name))

\* The file names and extracted texts the directories are made of.
FileNames ==
    {PdfSuffix, PdfSuffix \o PdfSuffix, <<"a">> \o PdfSuffix, <<"a">>}
RawTexts == {EmptyStr, <<" ">>, <<".">>, <<".", " ", " ", ".">>}
Entries == [name : FileNames, raw_text : RawTexts]

\* A directory that does not exist, or one that lists up to two entries of
\* different names, in any order.
Directories ==
    {[exists |-> FALSE, entries |-> << >>]}
    \cup {[exists |-> TRUE, entries |-> es] :
            es \in {<< >>} \cup {<<e>> : e \in Entries}
                   \cup {<<p[1], p[2]>> :
                            p \in {q \in Entries \X Entries :
                                     q[1].name # q[2].name}}}

\* Mutation of DirectoryRejected: no check of the directory.
DirectoryRejectedNever == FALSE

\* The two tests that raise FileNotFoundError.
DirectoryRejected == ~directory.exists \/ Glob(directory.entries) = << >>

\* process_*_documents up to its loop.
ProcessDocumentsStart ==
    /\ pc = "main"
    /\ IF DirectoryRejected
       THEN /\ outcome' = "FileNotFoundError"
            /\ pc' = "exit"
            /\ UNCHANGED pdf_files
       ELSE /\ pdf_files' = Glob(directory.entries)
            /\ pc' = "next_file"
            /\ UNCHANGED outcome
    /\ UNCHANGED <<directory, file_index, all_documents, all_chunks, all_failed,
                   knowledge_base>>
    /\ UNCHANGED <<impl, text, chunk_size, overlap, sentences, i, current_chunk,
                   current_size, chunk_index, sentence_index, chunks, overlaps,
                   current_overlap, processed_chunks, pdf_path, document_name,
                   embedding_failed>>
    /\ UNCHANGED searchVars
    /\ UNCHANGED otherVars

CleanText(raw_text) ==
    IF impl = "patent" THEN CleanPatentText(raw_text) ELSE CleanLegalText(raw_text)

\* process_document(str(pdf_file)) up to the call of the chunker.  A file
\* without extractable text makes it return None, and the loop goes on.
ProcessDocumentEnter ==
    /\ pc = "next_file"
    /\ file_index < Len(pdf_files)
    /\ LET pdf_file == pdf_files[file_index + 1]
       IN  IF pdf_file.raw_text = EmptyStr
           THEN /\ file_index' = file_index + 1
                /\ UNCHANGED <<text, sentences, i, current_chunk, current_size,
                               chunk_index, sentence_index, chunks, overlaps,
                               current_overlap, processed_chunks, pdf_path,
                               document_name, embedding_failed, pc>>
           ELSE /\ pdf_path' = pdf_file.name
                /\ document_name' = Stem(pdf_file.name)
                /\ text' = CleanText(pdf_file.raw_text)
                /\ sentences' = << >>
                /\ i' = 0
                /\ current_chunk' = EmptyStr
                /\ current_size' = 0
                /\ chunk_index' = 0
                /\ sentence_index' = 0
                /\ chunks' = << >>
                /\ overlaps' = << >>
                /\ current_overlap' = EmptyStr
                /\ processed_chunks' = << >>
                /\ embedding_failed' = << >>
                /\ pc' = "start"
                /\ UNCHANGED file_index
    /\ UNCHANGED <<impl, chunk_size, overlap>>
    /\ UNCHANGED <<directory, pdf_files, all_documents, all_chunks, all_failed,
                   knowledge_base, outcome>>
    /\ UNCHANGED searchVars
    /\ UNCHANGED otherVars

\* The record process_document returns.
DocumentData(raw_text) ==
    [document_name |-> document_name,
     document_path |-> pdf_path,
     total_chunks |-> Len(processed_chunks),
     chunks |-> processed_chunks,
     metadata |-> [original_text_length |-> Len(raw_text),
                   clean_text_length |-> Len(text),
                   embedding_model |-> ModelName]]

\* Mutation of ExtendChunks: the list replaced instead of extended.
ExtendChunksReplacing(list, document_chunks) == document_chunks

\* all_chunks.extend(document_data['chunks'])
ExtendChunks(list, document_chunks) == list \o document_chunks

\* "if document_data:" and the two lines under it.
AppendDocument ==
    /\ pc = "done"
    /\ LET document_data == DocumentData(pdf_files[file_index + 1].raw_text)
       IN  /\ all_documents' = Append(all_documents, document_data)
           /\ all_chunks' = ExtendChunks(all_chunks, document_data.chunks)
    /\ all_failed' = all_failed \o embedding_failed
    /\ file_index' = file_index + 1
    /\ pc' = "next_file"
    /\ UNCHANGED <<directory, pdf_files, knowledge_base, outcome>>
    /\ UNCHANGED <<impl, text, chunk_size, overlap, sentences, i, current_chunk,
                   current_size, chunk_index, sentence_index, chunks, overlaps,
                   current_overlap, processed_chunks, pdf_path, document_name,
                   embedding_failed>>
    /\ UNCHANGED searchVars
    /\ UNCHANGED otherVars

\* The metadata of the returned knowledge base (processed_at, a time stamp,
\* and the constant knowledge_base_type are left out).
KnowledgeBaseMetadata(documents, document_chunks) ==
    [total_documents |-> Len(documents),
     total_chunks |-> Len(document_chunks),
     embedding_model |-> ModelName,
     embedding_dimension |-> Dim]

\* After the loop: the knowledge base is returned to main.
ProcessDocumentsReturn ==
    /\ pc = "next_file"
    /\ file_index = Len(pdf_files)
    /\ knowledge_base' =
          [documents |-> all_documents,
           all_chunks |-> all_chunks,
           metadata |-> KnowledgeBaseMetadata(all_documents, all_chunks)]
    /\ pc' = "save"
    /\ UNCHANGED <<directory, pdf_files, file_index, all_documents, all_chunks,
                   all_failed, outcome>>
    /\ UNCHANGED <<impl, text, chunk_size, overlap, sentences, i, current_chunk,
                   current_size, chunk_index, sentence_index, chunks, overlaps,
                   current_overlap, processed_chunks, pdf_path, document_name,
                   embedding_failed>>
    /\ UNCHANGED searchVars
    /\ UNCHANGED otherVars

\* save_to_pickle, called by main: the file is written, or open() raises and
\* main re-raises.
SaveToPickle ==
    /\ pc = "save"
    /\ \E opened \in BOOLEAN :
          IF opened
          THEN /\ pickle' = knowledge_base
               /\ outcome' = "returned"
          ELSE /\ outcome' = "OSError"
               /\ UNCHANGED pickle
    /\ pc' = "exit"
    /\ UNCHANGED <<retriever, call, apiVars>>
    /\ UNCHANGED <<directory, pdf_files, file_index, all_documents, all_chunks,
                   all_failed, knowledge_base>>
    /\ UNCHANGED <<impl, text, chunk_size, overlap, sentences, i, current_chunk,
                   current_size, chunk_index, sentence_index, chunks, overlaps,
                   current_overlap, processed_chunks, pdf_path, document_name,
                   embedding_failed>>
    /\ UNCHANGED otherVars

InitBuild ==
    /\ impl \in {"patent", "legal"}
    /\ chunk_size \in 1..MaxChunkSize
    /\ overlap \in 0..(chunk_size - 1)
    /\ directory \in Directories
    /\ pdf_files = << >>
    /\ file_index = 0
    /\ all_documents = << >>
    /\ all_chunks = << >>
    /\ all_failed = << >>
    /\ knowledge_base = NoKnowledgeBase
    /\ outcome = "none"
    /\ text = EmptyStr
    /\ sentences = << >>
    /\ i = 0
    /\ current_chunk = EmptyStr
    /\ current_size = 0
    /\ chunk_index = 0
    /\ sentence_index = 0
    /\ chunks = << >>
    /\ overlaps = << >>
    /\ current_overlap = EmptyStr
    /\ processed_chunks = << >>
    /\ pdf_path = EmptyStr
    /\ document_name = EmptyStr
    /\ embedding_failed = << >>
    /\ pc = "main"
    /\ pickle = NoFile
    /\ retriever = NoRetriever
    /\ call = NoCall
    /\ ApiIdle
    /\ CleanIdle
    /\ IngestIdle
    /\ RestIdle

NextBuild ==
    \/ ProcessDocumentsStart
    \/ ProcessDocumentEnter
    \/ ChunkerStart
    \/ PatentStep
    \/ LegalStep
    \/ ChunkerFinish
    \/ ProcessChunk
    \/ ProcessDocumentReturn
    \/ AppendDocument
    \/ ProcessDocumentsReturn
    \/ SaveToPickle

SpecBuild == InitBuild /\ [][NextBuild]_vars


\* ===================================================== cleaning, repeated

\* the longest text handed to clean_text / to clean_patent_text
MaxLegalRawLen == 5
MaxPatentRawLen == 7

LegalAlphabet == {"a", "A", "1", ".", " "}
PatentAlphabet == {"---", "Page", "1", " ", "#"}

\* One more application of the cleaning function to what the last one
\* returned (first to the text itself).
CleanAgain ==
    /\ pc = "clean"
    /\ Len(cleaned) < 2
    /\ cleaned' = Append(cleaned,
                         CleanText(IF cleaned = << >> THEN uncleaned
                                   ELSE cleaned[Len(cleaned)]))
    /\ UNCHANGED uncleaned
    /\ UNCHANGED <<chunkVars, searchVars, buildVars, ingestVars, restVars>>

InitClean ==
    /\ \/ /\ impl = "legal"
          /\ uncleaned \in StringsOver(LegalAlphabet, MaxLegalRawLen)
       \/ /\ impl = "patent"
          /\ uncleaned \in StringsOver(PatentAlphabet, MaxPatentRawLen)
    /\ cleaned = << >>
    /\ text = EmptyStr
    /\ chunk_size = 1
    /\ overlap = 0
    /\ sentences = << >>
    /\ i = 0
    /\ current_chunk = EmptyStr
    /\ current_size = 0
    /\ chunk_index = 0
    /\ sentence_index = 0
    /\ chunks = << >>
    /\ overlaps = << >>
    /\ current_overlap = EmptyStr
    /\ processed_chunks = << >>
    /\ pdf_path = EmptyStr
    /\ document_name = EmptyStr
    /\ embedding_failed = << >>
    /\ pc = "clean"
    /\ pickle = NoFile
    /\ retriever = NoRetriever
    /\ call = NoCall
    /\ ApiIdle
    /\ BuildIdle
    /\ IngestIdle
    /\ RestIdle

NextClean == CleanAgain

SpecClean == InitClean /\ [][NextClean]_vars


\* ============================================================ retriever

\* A vector of another dimension, as a chunk embedded by a different model
\* (or a truncated one) would carry.
ShortVector == [d \in 1..(Dim - 1) |-> 1]
StoredEmbeddings == Vectors \cup {ShortVector}
OtherModelName == "text-embedding-ada-002"

\* The chunk record process_document stores for the k-th chunk (0-based
\* index k - 1) of a document, with the given embedding.
StoredChunk(k, embedding) ==
    ProcessedChunk(DocumentName, DocumentPath,
                   [text |-> <<"a", ".">>, index |-> k - 1, size |-> 2,
                    start_sentence |-> k - 1], embedding)

KnowledgeBases ==
    {[all_chunks |-> [k \in 1..n |-> StoredChunk(k, es[k])],
      metadata |-> [embedding_model |-> m]] :
        n \in 0..MaxChunks, es \in [1..MaxChunks -> StoredEmbeddings],
        m \in {ModelName, OtherModelName}}

\* np.array([chunk['embedding'] for chunk in self.chunks]):
\*   no chunk                -> a 1-D array of shape (0,)
\*   rows of one length      -> a 2-D float matrix
\*   rows of several lengths -> ValueError (numpy >= 1.24), or a 1-D array
\*                              of dtype object (older numpy)
IsRagged(rows) == \E a, b \in 1..Len(rows) : Len(rows[a]) # Len(rows[b])

NpArray(rows, ragged_raises) ==
    IF Len(rows) = 0 THEN [shape |-> "empty", rows |-> rows]
    ELSE IF ~IsRagged(rows) THEN [shape |-> "matrix", rows |-> rows]
    ELSE IF ragged_raises THEN [shape |-> "ValueError", rows |-> << >>]
    ELSE [shape |-> "object", rows |-> rows]

EmbeddingRows(stored) == [k \in 1..Len(stored) |-> stored[k].embedding]

Call(op, query, top_k, collaborator_calls, query_embedding, ended, results) ==
    [op |-> op, query |-> query, top_k |-> top_k,
     collaborator_calls |-> collaborator_calls,
     query_embedding |-> query_embedding,
     outcome |-> ended, results |-> results]

\* PatentRAGRetriever.__init__ / LegalRAGRetriever.__init__ (the two are the
\* same code).  A raising constructor leaves the caller without an instance.
Construct ==
    \E ragged_raises \in BOOLEAN :
        LET embeddings == NpArray(EmbeddingRows(pickle.all_chunks), ragged_raises)
        IN  IF embeddings.shape = "ValueError"
            THEN /\ call' = Call("load", EmptyStr, 0, 0, << >>, "ValueError", << >>)
                 /\ UNCHANGED retriever
            ELSE /\ retriever' = [kind |-> "loaded",
                                  embedding_model |-> ModelName,
                                  knowledge_base |-> pickle,
                                  chunks |-> pickle.all_chunks,
                                  embeddings |-> embeddings]
                 /\ call' = Call("load", EmptyStr, 0, 0, << >>, "returned", << >>)

Load ==
    /\ retriever = NoRetriever
    /\ Construct
    /\ UNCHANGED pickle
    /\ UNCHANGED apiVars
    /\ UNCHANGED outsideSearch

\* ------------------------------------------------------ cosine similarity
Dot(u, v) == LET RECURSIVE S(_)
                 S(d) == IF d = 0 THEN 0 ELSE u[d] * v[d] + S(d - 1)
             IN  S(Len(u))
Norm2(u) == Dot(u, u)

\* Mutation of Similarity: the dot product over the product of the norms,
\* whatever the norms.
SimilarityUnguarded(q, c) == [n |-> Dot(q, c), d2 |-> Norm2(q) * Norm2(c)]

\* sklearn cosine_similarity of one query row and one matrix row: both are
\* normalised first, a zero norm being replaced by 1, so a zero vector
\* scores 0.  The value is n / sqrt(d2), kept exact.
Similarity(q, c) ==
    IF Norm2(q) = 0 \/ Norm2(c) = 0 THEN [n |-> 0, d2 |-> 1]
    ELSE [n |-> Dot(q, c), d2 |-> Norm2(q) * Norm2(c)]

Abs(x) == IF x < 0 THEN -x ELSE x
SimLess(a, b) == a.n * Abs(a.n) * b.d2 < b.n * Abs(b.n) * a.d2
SimEq(a, b) == a.n * Abs(a.n) * b.d2 = b.n * Abs(b.n) * a.d2
SimLeq(a, b) == SimLess(a, b) \/ SimEq(a, b)

\* np.argsort(similarities): an ascending order of the (1-based) rows.  The
\* default sort kind is not stable, so equal similarities come in any order.
ArgSorts(sims) ==
    {p \in Permutations(1..Len(sims)) :
        \A k \in 1..(Len(sims) - 1) : SimLeq(sims[p[k]], sims[p[k + 1]])}

\* a[-top_k:] on a sequence of length n: the 0-based start of the slice.
SliceStart(n, top_k) ==
    IF top_k > 0 THEN Max(n - top_k, 0)
    ELSE IF top_k = 0 THEN 0
    ELSE Min(-top_k, n)

\* Mutation of TopIndices: the slice taken from the front of the ascending
\* order (order[:top_k]) instead of from its end.
TopIndicesFromFront(order, top_k) ==
    [k \in 1..Min(Max(top_k, 0), Len(order)) |-> order[k]]

\* np.argsort(similarities)[-top_k:][::-1]
TopIndices(order, top_k) ==
    LET n == Len(order)
        start == SliceStart(n, top_k)
    IN  [k \in 1..(n - start) |-> order[n - k + 1]]

SearchResult(chunk, similarity) ==
    [text |-> chunk.text, similarity |-> similarity,
     document_name |-> chunk.document_name, chunk_id |-> chunk.chunk_id,
     metadata |-> chunk.metadata]

\* cosine_similarity validates its arguments: the matrix must be 2-D and
\* numeric with as many columns as the query vector.
MatrixAccepts(embeddings, q) ==
    /\ embeddings.shape = "matrix"
    /\ Len(embeddings.rows[1]) = Len(q)

Similarities(embeddings, q) ==
    [k \in 1..Len(embeddings.rows) |-> Similarity(q, embeddings.rows[k])]

Queries == {EmptyStr, <<"a">>}
TopKs == (0 - 1)..(MaxChunks + 1)

\* search_similar_chunks(query, top_k)
SearchSimilarChunks(query, top_k) ==
    \E collaborator_ok \in BOOLEAN, q \in Vectors :
        IF ~collaborator_ok
        THEN call' = Call("search", query, top_k, 1, << >>, "APIError", << >>)
        ELSE IF ~MatrixAccepts(retriever.embeddings, q)
        THEN call' = Call("search", query, top_k, 1, q, "ValueError", << >>)
        ELSE \E order \in ArgSorts(Similarities(retriever.embeddings, q)) :
                LET similarities == Similarities(retriever.embeddings, q)
                    top_indices == TopIndices(order, top_k)
                    results == [r \in 1..Len(top_indices) |->
                                  SearchResult(retriever.chunks[top_indices[r]],
                                               similarities[top_indices[r]])]
                IN  call' = Call("search", query, top_k, 1, q, "returned", results)

Search ==
    /\ retriever # NoRetriever
    /\ call.op # "search"
    /\ handler = NoHandler
    /\ \E query \in Queries, top_k \in TopKs : SearchSimilarChunks(query, top_k)
    /\ UNCHANGED <<pickle, retriever>>
    /\ UNCHANGED apiVars
    /\ UNCHANGED outsideSearch

\* The caller takes the outcome of its search; it is then free to call again.
SearchDone ==
    /\ call.op = "search"
    /\ handler = NoHandler
    /\ call' = NoCall
    /\ UNCHANGED <<pickle, retriever>>
    /\ UNCHANGED apiVars
    /\ UNCHANGED outsideSearch

\* ------------------------------------------ handlers that consume results
\* LegalChatService.get_local_context / process_legal_query and
\* PatentSearchService.get_local_similar_patents.  A search result carries
\* chunk['metadata'] itself, not a copy: a store into that dict is a store
\* into the chunk the retriever holds.

\* dict[key] = value
SetItem(dict, key, value) ==
    [f \in DOMAIN dict \cup {key} |-> IF f = key THEN value ELSE dict[f]]

\* f"{chunk['document_name']} (Chunk {chunk['metadata']['chunk_index']})"
Title(result) ==
    result.document_name \o <<" ", "(", "C", "h", "u", "n", "k", " ">>
    \o Str(result.metadata.chunk_index) \o <<")">>

\* The entry get_local_context appends for one result.
ContextEntry(result) ==
    [type |-> "local",
     title |-> Title(result),
     content |-> result.text,
     source |-> result.document_name,
     relevance_score |-> result.similarity,
     metadata |-> result.metadata]

\* result["text"][:500] + "..." if len(result["text"]) > 500 else result["text"]
DescriptionLimit == 500
Description(t) ==
    IF Len(t) > DescriptionLimit
    THEN SubSeq(t, 1, DescriptionLimit) \o <<".", ".", ".">> ELSE t

\* The PatentResult get_local_similar_patents appends for one result.
PatentResult(result) ==
    [title |-> result.document_name,
     description |-> Description(result.text),
     source |-> result.metadata.document_path,
     similarity_score |-> result.similarity,
     result_type |-> "local_corpus"]

\* The body of get_local_context: [] without a retriever or when the search
\* raises, else one entry per result.
LocalContext(query, max_results) ==
    IF retriever = NoRetriever
    THEN /\ local_context' = << >>
         /\ UNCHANGED call
    ELSE /\ SearchSimilarChunks(query, max_results)
         /\ local_context' = [r \in 1..Len(call'.results) |->
                                 ContextEntry(call'.results[r])]

\* process_legal_query up to the call of summarize_local_context; it is the
\* only caller of get_local_context.
ProcessLegalQuery ==
    /\ handler = NoHandler
    /\ call.op # "search"
    /\ \E use_local_docs \in BOOLEAN :
          IF use_local_docs
          THEN /\ \E query \in Queries, max_results \in 1..MaxChunks :
                     LocalContext(query, max_results)
               /\ handler' = [name |-> "process_legal_query",
                              stage |-> "summarize"]
          ELSE /\ handler' = [name |-> "process_legal_query",
                              stage |-> "respond"]
               /\ UNCHANGED <<call, local_context>>
    /\ UNCHANGED <<pickle, retriever, local_patents>>
    /\ UNCHANGED outsideSearch

\* What summarize_local_context gives for one entry.
Summaries == {EmptyStr, <<"a", ".">>}

\* The chunk of the retriever whose metadata dict entry r of local_context
\* shares.
ChunkOf(r) ==
    CHOOSE k \in 1..Len(retriever.chunks) :
        retriever.chunks[k].chunk_id = call.results[r].chunk_id

\* The retriever after a store into the metadata dict of chunk k; chunks and
\* knowledge_base['all_chunks'] are one list.
WithChunkMetadata(retr, k, key, value) ==
    [retr EXCEPT !.chunks[k].metadata = SetItem(@, key, value),
                 !.knowledge_base.all_chunks[k].metadata = SetItem(@, key, value)]

RECURSIVE StoreInMetadata(_, _, _)
StoreInMetadata(retr, summaries, r) ==
    IF r > Len(summaries) THEN retr
    ELSE StoreInMetadata(WithChunkMetadata(retr, ChunkOf(r), "summary",
                                           summaries[r]),
                         summaries, r + 1)

\* Mutation of SummaryHolder: local_context[i]["metadata"]["summary"] = summ
SummaryHolderMetadata == "metadata"

\* local_context[i]["summary"] = summ: the dict the summary is stored in
SummaryHolder == "entry"

\* "for i, summ in enumerate(summaries)" of process_legal_query.
AssignSummaries ==
    /\ handler = [name |-> "process_legal_query", stage |-> "summarize"]
    /\ \E summaries \in [1..Len(local_context) -> Summaries] :
          IF SummaryHolder = "entry"
          THEN /\ local_context' =
                     [r \in 1..Len(local_context) |->
                         SetItem(local_context[r], "summary", summaries[r])]
               /\ UNCHANGED retriever
          ELSE /\ local_context' =
                     [r \in 1..Len(local_context) |->
                         [local_context[r] EXCEPT
                             !.metadata = SetItem(@, "summary", summaries[r])]]
               /\ retriever' = StoreInMetadata(retriever, summaries, 1)
    /\ handler' = [name |-> "process_legal_query", stage |-> "respond"]
    /\ UNCHANGED <<pickle, call, local_patents>>
    /\ UNCHANGED outsideSearch

GetLocalSimilarPatents ==
    /\ handler = NoHandler
    /\ call.op # "search"
    /\ IF retriever = NoRetriever
       THEN /\ local_patents' = << >>
            /\ UNCHANGED call
       ELSE /\ \E description \in Queries, max_results \in 1..MaxChunks :
                  SearchSimilarChunks(description, max_results)
            /\ local_patents' = [r \in 1..Len(call'.results) |->
                                    PatentResult(call'.results[r])]
    /\ handler' = [name |-> "get_local_similar_patents", stage |-> "respond"]
    /\ UNCHANGED <<pickle, retriever, local_context>>
    /\ UNCHANGED outsideSearch

\* The handler returns what it built; the next request can come.
HandlerReturn ==
    /\ handler # NoHandler
    /\ handler.stage = "respond"
    /\ handler' = NoHandler
    /\ local_context' = << >>
    /\ local_patents' = << >>
    /\ call' = NoCall
    /\ UNCHANGED <<pickle, retriever>>
    /\ UNCHANGED outsideSearch

InitSearch ==
    /\ pickle \in KnowledgeBases
    /\ retriever = NoRetriever
    /\ call = NoCall
    /\ ApiIdle
    /\ CleanIdle
    /\ IngestIdle
    /\ RestIdle
    /\ impl = "patent"
    /\ text = EmptyStr
    /\ chunk_size = 1
    /\ overlap = 0
    /\ sentences = << >>
    /\ i = 0
    /\ current_chunk = EmptyStr
    /\ current_size = 0
    /\ chunk_index = 0
    /\ sentence_index = 0
    /\ chunks = << >>
    /\ overlaps = << >>
    /\ current_overlap = EmptyStr
    /\ processed_chunks = << >>
    /\ pdf_path = EmptyStr
    /\ document_name = EmptyStr
    /\ embedding_failed = << >>
    /\ pc = "idle"
    /\ BuildIdle

NextSearch ==
    \/ Load
    \/ Search
    \/ SearchDone
    \/ ProcessLegalQuery
    \/ AssignSummaries
    \/ GetLocalSimilarPatents
    \/ HandlerReturn

SpecSearch == InitSearch /\ [][NextSearch]_vars

\* ======================================== e-mail ingestion: queue and workers
\* ingest_enron_emails.py.  The coroutines run on one event loop: a step of
\* one of them is what it does between two points where it can be suspended
\* (get on an empty queue, put on a full one, a sleep).

\* CONCURRENCY, EMBED_BATCH_SIZE and MAX_QUEUE_SIZE (environment settings)
\* and the number of chunk documents of the run
Concurrency == 2
EmbedBatchSize == 2
MaxQueueSize == 2
NumDocs == 2

\* for attempt in range(5)
EmbedAttempts == 5

\* The sentinel None, and a document without its "embedding" key.
None == [kind |-> "None"]
NoEmbedding == << >>

\* The content of the d-th chunk document: d characters, so that no two
\* documents of a run have the same content.
Content(d) == [k \in 1..d |-> "a"]

\* The vector the embedding model gives for a text.
Embedding(content) == [d \in 1..Dim |-> IF d = 1 THEN Len(content) ELSE 0]

\* create_embeddings(texts) when the call succeeds: response.data holds one
\* embedding per input, in input order.
CreateEmbeddings(texts) == [k \in 1..Len(texts) |-> Embedding(texts[k])]

\* Mutation of AttachEmbeddings: the embeddings paired from the end.
AttachEmbeddingsReversed(batch, embeddings) ==
    [k \in 1..Len(batch) |->
        IF k <= Len(embeddings)
        THEN [batch[k] EXCEPT !.embedding = embeddings[Len(embeddings) - k + 1]]
        ELSE batch[k]]

\* for d, emb in zip(batch, embeddings): d["embedding"] = emb
AttachEmbeddings(batch, embeddings) ==
    [k \in 1..Len(batch) |->
        IF k <= Len(embeddings)
        THEN [batch[k] EXCEPT !.embedding = embeddings[k]]
        ELSE batch[k]]

\* process_email_batch: "await self.doc_queue.put(doc)"; put waits while the
\* queue is full.
ProducerPut ==
    /\ producer.pc = "put"
    /\ producer.next <= Len(email_chunks)
    /\ Len(doc_queue) < MaxQueueSize
    /\ doc_queue' = Append(doc_queue, email_chunks[producer.next])
    /\ unfinished_tasks' = unfinished_tasks + 1
    /\ producer' = [producer EXCEPT !.next = @ + 1]
    /\ UNCHANGED <<email_chunks, workers, convex_docs, embedded_chunks, taken>>
    /\ UNCHANGED errors
    /\ UNCHANGED <<chunkVars, searchVars, buildVars, cleanVars, restVars>>

\* run_ingestion after the stream: one sentinel per worker, then join().
ProducerSentinel ==
    /\ producer.pc = "put"
    /\ producer.next > Len(email_chunks)
    /\ producer.sentinels < Concurrency
    /\ Len(doc_queue) < MaxQueueSize
    /\ doc_queue' = Append(doc_queue, None)
    /\ unfinished_tasks' = unfinished_tasks + 1
    /\ producer' = [producer EXCEPT
                       !.sentinels = @ + 1,
                       !.pc = IF producer.sentinels + 1 = Concurrency
                              THEN "join" ELSE "put"]
    /\ UNCHANGED <<email_chunks, workers, convex_docs, embedded_chunks, taken>>
    /\ UNCHANGED errors
    /\ UNCHANGED <<chunkVars, searchVars, buildVars, cleanVars, restVars>>

\* The top-up loop of the worker on the queue q with the batch b so far:
\* get_nowait until the batch is full, the queue is empty or a sentinel
\* comes, which is put back behind what is left.
RECURSIVE TopUp(_, _)
TopUp(q, b) ==
    IF Len(b) >= EmbedBatchSize \/ q = << >> THEN [queue |-> q, batch |-> b]
    ELSE IF Head(q) = None THEN [queue |-> Append(Tail(q), None), batch |-> b]
    ELSE TopUp(Tail(q), Append(b, Head(q)))

\* worker: from "doc = await self.doc_queue.get()" to the first attempt.
WorkerGet(w) ==
    /\ workers[w].pc = "get"
    /\ doc_queue # << >>
    /\ IF Head(doc_queue) = None
       THEN /\ doc_queue' = Append(Tail(doc_queue), None)
            /\ workers' = [workers EXCEPT ![w].pc = "exited"]
            /\ UNCHANGED <<unfinished_tasks, taken>>
       ELSE LET got == TopUp(Tail(doc_queue), <<Head(doc_queue)>>)
            IN  /\ doc_queue' = got.queue
                /\ unfinished_tasks' = unfinished_tasks - Len(got.batch)
                /\ workers' = [workers EXCEPT ![w] = [pc |-> "embed",
                                                      batch |-> got.batch,
                                                      attempt |-> 0]]
                /\ taken' = [d \in 1..Len(taken) |->
                               IF \E k \in 1..Len(got.batch) : got.batch[k].id = d
                               THEN Append(taken[d], w) ELSE taken[d]]
    /\ UNCHANGED <<email_chunks, producer, convex_docs, embedded_chunks>>
    /\ UNCHANGED errors
    /\ UNCHANGED <<chunkVars, searchVars, buildVars, cleanVars, restVars>>

\* worker: one attempt of the retry loop.  create_embeddings raises or
\* returns; store_documents_batch returns False on any error, which the
\* worker does not look at.  Nothing here touches stats["errors"].
WorkerEmbed(w) ==
    /\ workers[w].pc = "embed"
    /\ \E embedded \in BOOLEAN, was_stored \in BOOLEAN :
          IF embedded
          THEN LET texts == [k \in 1..Len(workers[w].batch) |->
                               workers[w].batch[k].content]
                   batch == AttachEmbeddings(workers[w].batch,
                                             CreateEmbeddings(texts))
               IN  /\ workers' = [workers EXCEPT ![w].batch = batch,
                                                 ![w].pc = "yield"]
                   /\ convex_docs' = IF was_stored THEN Append(convex_docs, batch)
                                ELSE convex_docs
                   /\ embedded_chunks' = embedded_chunks + Len(batch)
          ELSE /\ workers' = [workers EXCEPT
                                 ![w].attempt = @ + 1,
                                 ![w].pc = IF workers[w].attempt + 1 < EmbedAttempts
                                           THEN "embed" ELSE "yield"]
               /\ UNCHANGED <<convex_docs, embedded_chunks>>
    /\ UNCHANGED <<email_chunks, doc_queue, unfinished_tasks, producer, taken>>
    /\ UNCHANGED errors
    /\ UNCHANGED <<chunkVars, searchVars, buildVars, cleanVars, restVars>>

\* worker: "await asyncio.sleep(0)" and the top of the loop, "batch = []".
WorkerYield(w) ==
    /\ workers[w].pc = "yield"
    /\ workers' = [workers EXCEPT ![w] = [pc |-> "get", batch |-> << >>,
                                          attempt |-> 0]]
    /\ UNCHANGED <<email_chunks, doc_queue, unfinished_tasks, producer, convex_docs,
                   embedded_chunks, taken>>
    /\ UNCHANGED errors
    /\ UNCHANGED <<chunkVars, searchVars, buildVars, cleanVars, restVars>>

InitIngest ==
    /\ \E n \in 0..NumDocs :
          email_chunks = [d \in 1..n |-> [id |-> d, content |-> Content(d),
                                          embedding |-> NoEmbedding]]
    /\ doc_queue = << >>
    /\ unfinished_tasks = 0
    /\ producer = [pc |-> "put", next |-> 1, sentinels |-> 0]
    /\ workers = [w \in 1..Concurrency |-> [pc |-> "get", batch |-> << >>,
                                            attempt |-> 0]]
    /\ convex_docs = << >>
    /\ embedded_chunks = 0
    /\ errors = 0
    /\ taken = [d \in 1..Len(email_chunks) |-> << >>]
    /\ impl = "patent"
    /\ text = EmptyStr
    /\ chunk_size = 1
    /\ overlap = 0
    /\ sentences = << >>
    /\ i = 0
    /\ current_chunk = EmptyStr
    /\ current_size = 0
    /\ chunk_index = 0
    /\ sentence_index = 0
    /\ chunks = << >>
    /\ overlaps = << >>
    /\ current_overlap = EmptyStr
    /\ processed_chunks = << >>
    /\ pdf_path = EmptyStr
    /\ document_name = EmptyStr
    /\ embedding_failed = << >>
    /\ pc = "ingest"
    /\ pickle = NoFile
    /\ retriever = NoRetriever
    /\ call = NoCall
    /\ ApiIdle
    /\ BuildIdle
    /\ CleanIdle
    /\ RestIdle

NextIngest ==
    \/ ProducerPut
    \/ ProducerSentinel
    \/ \E w \in 1..Concurrency : WorkerGet(w)
    \/ \E w \in 1..Concurrency : WorkerEmbed(w)
    \/ \E w \in 1..Concurrency : WorkerYield(w)

SpecIngest == InitIngest /\ [][NextIngest]_vars

\* The event loop runs every coroutine that is ready: run_ingestion and
\* each worker take their next step whenever it stays possible.
FairIngest ==
    /\ SpecIngest
    /\ WF_vars(ProducerPut)
    /\ WF_vars(ProducerSentinel)
    /\ \A w \in 1..Concurrency :
          /\ WF_vars(WorkerGet(w))
          /\ WF_vars(WorkerEmbed(w))
          /\ WF_vars(WorkerYield(w))


\* ================================================= the API processes
\* patent_api.py and legal_chat_api.py; impl says which of the two runs.
\* Every endpoint is an "async def" whose retrieval is a plain call, so a
\* request runs from its first to its last access of the retriever without
\* another request in between: one request is one step.

Unreadable == [kind |-> "unreadable"]

\* The embedding the f-th build gives chunk k: a unit vector.
BuildVector(k, f) == [d \in 1..Dim |-> IF d = ((k + f) % Dim) + 1 THEN 1 ELSE 0]

Builds == {0, 1}

\* The knowledge-base files a run of process_*_documents can leave: of no
\* chunk, or of MaxChunks chunks.
BuiltKnowledgeBases ==
    {[all_chunks |-> [k \in 1..n |-> StoredChunk(k, BuildVector(k, f))],
      metadata |-> [embedding_model |-> ModelName]] :
        n \in {0, MaxChunks}, f \in Builds}

\* What can be found at the path of the knowledge base.
Files == {NoFile, Unreadable} \cup BuiltKnowledgeBases

\* PatentRAGRetriever(pickle_path) / LegalRAGRetriever(pickle_path): the
\* new instance, or the exception open() or pickle.load() raises.
NewRetriever(file) ==
    IF file = NoFile THEN [kind |-> "FileNotFoundError"]
    ELSE IF file = Unreadable THEN [kind |-> "UnpicklingError"]
    ELSE [kind |-> "loaded",
          embedding_model |-> ModelName,
          knowledge_base |-> file,
          chunks |-> file.all_chunks,
          embeddings |-> NpArray(EmbeddingRows(file.all_chunks), TRUE)]

\* The embeddings the collaborator answers the queries of the requests with.
QueryVectors ==
    {[d \in 1..Dim |-> IF d = e THEN 1 ELSE 0] : e \in 1..Dim}

\* instance.search_similar_chunks(query, top_k)
InstanceSearch(instance, query, top_k) ==
    \E collaborator_ok \in BOOLEAN, q \in QueryVectors :
        IF ~collaborator_ok
        THEN call' = Call("search", query, top_k, 1, << >>, "APIError", << >>)
        ELSE IF ~MatrixAccepts(instance.embeddings, q)
        THEN call' = Call("search", query, top_k, 1, q, "ValueError", << >>)
        ELSE \E order \in ArgSorts(Similarities(instance.embeddings, q)) :
                LET similarities == Similarities(instance.embeddings, q)
                    top_indices == TopIndices(order, top_k)
                    results == [r \in 1..Len(top_indices) |->
                                  SearchResult(instance.chunks[top_indices[r]],
                                               similarities[top_indices[r]])]
                IN  call' = Call("search", query, top_k, 1, q, "returned", results)

\* The module is imported: the global is None, and the module-level
\* "patent_service = PatentSearchService()" copies it into the service.
ImportModule ==
    /\ app = "import"
    /\ service_retriever' = IF impl = "patent" THEN retriever ELSE NoRetriever
    /\ app' = "startup"
    /\ UNCHANGED <<pickle, retriever, call, response, swapped>>
    /\ UNCHANGED <<chunkVars, apiVars, buildVars, cleanVars, ingestVars,
                   emailChunkVars, orchVars, wfVars>>

\* lifespan, up to its yield: the global is the new instance, or None.
Lifespan ==
    /\ app = "startup"
    /\ LET new == NewRetriever(pickle)
       IN  retriever' = IF new.kind = "loaded" THEN new ELSE NoRetriever
    /\ app' = "serving"
    /\ UNCHANGED <<pickle, call, service_retriever, response, swapped>>
    /\ UNCHANGED <<chunkVars, apiVars, buildVars, cleanVars, ingestVars,
                   emailChunkVars, orchVars, wfVars>>

\* The file of the knowledge base is written anew, or removed.
ReplaceFile ==
    /\ app = "serving"
    /\ \E file \in Files \ {pickle} : pickle' = file
    /\ UNCHANGED <<retriever, call, serveVars>>
    /\ UNCHANGED <<chunkVars, apiVars, buildVars, cleanVars, ingestVars,
                   emailChunkVars, orchVars, wfVars>>

ApiQueries == {<<"a">>}
MaxResults == 1..MaxChunks

\* GET /patent/search-local and GET /legal/search
SearchLocal ==
    /\ app = "serving"
    /\ IF retriever = NoRetriever
       THEN /\ response' = [endpoint |-> "search-local", status |-> 503]
            /\ UNCHANGED call
       ELSE /\ \E query \in ApiQueries, max_results \in MaxResults :
                  InstanceSearch(retriever, query, max_results)
            /\ response' = IF call'.outcome = "returned"
                           THEN [endpoint |-> "search-local", status |-> 200,
                                 results |-> call'.results]
                           ELSE [endpoint |-> "search-local", status |-> 500]
    /\ UNCHANGED <<pickle, retriever, app, service_retriever, swapped>>
    /\ UNCHANGED <<chunkVars, apiVars, buildVars, cleanVars, ingestVars,
                   emailChunkVars, orchVars, wfVars>>

\* POST /patent/search: PatentSearchService.search_similar_patents, whose
\* local part is get_local_similar_patents on the retriever of the service.
SearchSimilarPatents ==
    /\ app = "serving"
    /\ impl = "patent"
    /\ \E use_local_corpus \in BOOLEAN :
          /\ IF use_local_corpus /\ service_retriever # NoRetriever
             THEN \E description \in ApiQueries, max_results \in MaxResults :
                     InstanceSearch(service_retriever, description, max_results)
             ELSE UNCHANGED call
          /\ response' =
                [endpoint |-> "search", status |-> 200,
                 use_local_corpus |-> use_local_corpus,
                 local_results |->
                    IF use_local_corpus /\ service_retriever # NoRetriever
                    THEN [r \in 1..Len(call'.results) |->
                             PatentResult(call'.results[r])]
                    ELSE << >>]
    /\ UNCHANGED <<pickle, retriever, app, service_retriever, swapped>>
    /\ UNCHANGED <<chunkVars, apiVars, buildVars, cleanVars, ingestVars,
                   emailChunkVars, orchVars, wfVars>>

\* The status legal_chat answers with when its body raised the
\* HTTPException of the given status: the raise stands inside the try whose
\* "except Exception" turns whatever was raised into a 500.
ChatErrorStatus(raised) == 500

Questions == {EmptyStr, <<" ">>, <<"a">>}

\* POST /legal/chat
LegalChat ==
    /\ app = "serving"
    /\ impl = "legal"
    /\ \E question \in Questions, use_local_docs \in BOOLEAN :
          IF Strip(question) = EmptyStr
          THEN /\ response' = [endpoint |-> "chat", question |-> question,
                               status |-> ChatErrorStatus(400),
                               calls |-> {}]
               /\ UNCHANGED call
          ELSE IF use_local_docs /\ retriever # NoRetriever
          THEN /\ \E max_results \in MaxResults :
                     InstanceSearch(retriever, question, max_results)
               /\ \E summaries \in [1..Len(call'.results) -> Summaries] :
                     response' =
                        [endpoint |-> "chat", question |-> question,
                         status |-> 200,
                         calls |-> {"retrieval", "llm"},
                         local_context_used |->
                            [r \in 1..Len(call'.results) |->
                                SetItem(ContextEntry(call'.results[r]),
                                        "summary", summaries[r])]]
          ELSE /\ response' = [endpoint |-> "chat", question |-> question,
                               status |-> 200, calls |-> {"llm"},
                               local_context_used |-> << >>]
               /\ UNCHANGED call
    /\ UNCHANGED <<pickle, retriever, app, service_retriever, swapped>>
    /\ UNCHANGED <<chunkVars, apiVars, buildVars, cleanVars, ingestVars,
                   emailChunkVars, orchVars, wfVars>>

\* Mutation of Rebind: the chunk list of the instance in service is
\* replaced in place, its matrix left as it was.
RebindChunksInPlace(old, new) ==
    IF old = NoRetriever \/ Len(old.chunks) # Len(new.chunks) THEN new
    ELSE [old EXCEPT !.chunks = new.chunks]

\* "patent_retriever = PatentRAGRetriever(...)": the global names the new
\* instance; the old one is not touched.
Rebind(old, new) == new

\* Mutation of KeptOnFailure: the global is reset as lifespan resets it.
KeptOnFailureNone(old) == NoRetriever

\* The constructor raised before the assignment took place: the global
\* still names what it named.
KeptOnFailure(old) == old

\* POST /patent/reload and POST /legal/reload
Reload ==
    /\ app = "serving"
    /\ LET new == NewRetriever(pickle)
       IN  IF new.kind = "loaded"
           THEN /\ retriever' = Rebind(retriever, new)
                /\ response' = [endpoint |-> "reload", status |-> 200]
                /\ swapped' = (swapped \/ (retriever # NoRetriever
                                           /\ new # retriever))
           ELSE /\ retriever' = KeptOnFailure(retriever)
                /\ response' = [endpoint |-> "reload", status |-> 500]
                /\ UNCHANGED swapped
    /\ UNCHANGED <<pickle, call, app, service_retriever>>
    /\ UNCHANGED <<chunkVars, apiVars, buildVars, cleanVars, ingestVars,
                   emailChunkVars, orchVars, wfVars>>

InitApi ==
    /\ impl \in {"patent", "legal"}
    /\ pickle \in Files
    /\ retriever = NoRetriever
    /\ call = NoCall
    /\ app = "import"
    /\ service_retriever = NoRetriever
    /\ response = NoResponse
    /\ swapped = FALSE
    /\ text = EmptyStr
    /\ chunk_size = 1
    /\ overlap = 0
    /\ sentences = << >>
    /\ i = 0
    /\ current_chunk = EmptyStr
    /\ current_size = 0
    /\ chunk_index = 0
    /\ sentence_index = 0
    /\ chunks = << >>
    /\ overlaps = << >>
    /\ current_overlap = EmptyStr
    /\ processed_chunks = << >>
    /\ pdf_path = EmptyStr
    /\ document_name = EmptyStr
    /\ embedding_failed = << >>
    /\ pc = "serve"
    /\ ApiIdle
    /\ BuildIdle
    /\ CleanIdle
    /\ IngestIdle
    /\ EmailChunkIdle
    /\ OrchIdle
    /\ WorkflowIdle

NextApi ==
    \/ ImportModule
    \/ Lifespan
    \/ ReplaceFile
    \/ SearchLocal
    \/ SearchSimilarPatents
    \/ LegalChat
    \/ Reload

SpecApi == InitApi /\ [][NextApi]_vars


\* ==================================================== the e-mail chunker
\* EnronEmailIngester.chunk_text, with CHUNK_SIZE in chunk_size and
\* OVERLAP_SIZE in overlap.  The text comes from clean_text, which has
\* turned every run of whitespace, newlines included, into one space.

\* the longest e-mail text and the largest CHUNK_SIZE
MaxEmailLen == 6
MaxEmailChunkSize == 4

\* text[a:b] for 0 <= a
Slice(s, a, b) == SubSeq(s, a + 1, Min(b, Len(s)))

\* The filter of the return statement.
ValidChunks(cs) == SelectSeq(cs, LAMBDA c : Len(Strip(c)) > MinChunkLength)

\* chunk_text up to its loop.
EmailChunkerStart ==
    /\ pc = "start"
    /\ IF Len(text) <= chunk_size
       THEN /\ valid_chunks' = <<text>>
            /\ pc' = "returned"
       ELSE /\ pc' = "loop"
            /\ UNCHANGED valid_chunks
    /\ UNCHANGED <<start_pos, chunks>>
    /\ UNCHANGED <<impl, text, chunk_size, overlap, sentences, i, current_chunk,
                   current_size, chunk_index, sentence_index, overlaps,
                   current_overlap, processed_chunks, pdf_path, document_name,
                   embedding_failed>>
    /\ UNCHANGED <<searchVars, buildVars, cleanVars, ingestVars, serveVars,
                   orchVars, wfVars>>

\* One iteration of the while loop, and the return when the loop is left.
\* rfind('\n') is -1 on a cleaned text.  The list of chunks stands for the
\* memory of the process: the loop is not followed beyond one chunk more
\* than the text has characters.
EmailChunkerStep ==
    /\ pc = "loop"
    /\ start_pos < Len(text)
    /\ Len(chunks) <= Len(text)
    /\ LET end0 == Min(start_pos + chunk_size, Len(text))
           chunk0 == Slice(text, start_pos, end0)
           last_period == RFindDot(chunk0)
           last_newline == 0 - 1
           break_point == Max(last_period, last_newline)
           breaks == /\ end0 < Len(text)
                     /\ 10 * break_point > 10 * start_pos + 7 * chunk_size
           chunk == IF breaks THEN Slice(text, start_pos, start_pos + break_point + 1)
                    ELSE chunk0
           end == IF breaks THEN start_pos + break_point + 1 ELSE end0
       IN  /\ chunks' = Append(chunks, Strip(chunk))
           /\ start_pos' = end - overlap
           /\ IF end - overlap >= Len(text)
              THEN /\ valid_chunks' = ValidChunks(chunks')
                   /\ pc' = "returned"
              ELSE UNCHANGED <<valid_chunks, pc>>
    /\ UNCHANGED <<impl, text, chunk_size, overlap, sentences, i, current_chunk,
                   current_size, chunk_index, sentence_index, overlaps,
                   current_overlap, processed_chunks, pdf_path, document_name,
                   embedding_failed>>
    /\ UNCHANGED <<searchVars, buildVars, cleanVars, ingestVars, serveVars,
                   orchVars, wfVars>>

InitEmailChunk ==
    /\ impl = "email"
    /\ text \in Strings(MaxEmailLen)
    /\ chunk_size \in 1..MaxEmailChunkSize
    /\ overlap \in 0..(chunk_size - 1)
    /\ start_pos = 0
    /\ chunks = << >>
    /\ valid_chunks = << >>
    /\ pc = "start"
    /\ sentences = << >>
    /\ i = 0
    /\ current_chunk = EmptyStr
    /\ current_size = 0
    /\ chunk_index = 0
    /\ sentence_index = 0
    /\ overlaps = << >>
    /\ current_overlap = EmptyStr
    /\ processed_chunks = << >>
    /\ pdf_path = EmptyStr
    /\ document_name = EmptyStr
    /\ embedding_failed = << >>
    /\ pickle = NoFile
    /\ retriever = NoRetriever
    /\ call = NoCall
    /\ ApiIdle
    /\ BuildIdle
    /\ CleanIdle
    /\ IngestIdle
    /\ ServeIdle
    /\ OrchIdle
    /\ WorkflowIdle

NextEmailChunk ==
    \/ EmailChunkerStart
    \/ EmailChunkerStep

SpecEmailChunk == InitEmailChunk /\ [][NextEmailChunk]_vars


\* ======================================================= the orchestrator
\* orchestrator.py: POST /orchestrator, OrchestratorService.query_agent and
\* _analyze_filora_action.

Agents == {"lexi", "juris", "filora"}
OrchQueries == {<<"a">>, <<"a", ".">>}

ActionTypes == {"fill-form", "click-element", "extract-data", "action"}
Endpoints == {"/fill-form", "/click-element", "/extract-data", "/action"}
Reasonings == {"fits the request"}

\* What the model can answer the analysis prompt with: a JSON object, a
\* text that is not JSON, or no answer (the call raises).
LlmAnswers ==
    [kind : {"json"}, action_type : ActionTypes, endpoint : Endpoints,
     reasoning : Reasonings]
    \cup {[kind |-> "text"], [kind |-> "error"]}

GeneralAction(q) ==
    [url |-> "https://example.com", action_type |-> "general",
     instructions |-> q, timeout |-> 30]

\* _analyze_filora_action(query), given what the model answered.
AnalyzeFiloraAction(q, llm) ==
    IF llm.kind = "error"
    THEN [endpoint |-> "/action", request_data |-> GeneralAction(q),
          action_type |-> "action",
          reasoning |-> "Analysis failed due to error, using general action"]
    ELSE IF llm.kind = "text"
    THEN [endpoint |-> "/action", request_data |-> GeneralAction(q),
          action_type |-> "action",
          reasoning |-> "LLM parsing failed, using general action"]
    ELSE [endpoint |-> llm.endpoint,
          request_data |->
             IF llm.action_type = "fill-form"
             THEN [url |-> "https://example.com", form_data |-> << >>,
                   submit |-> FALSE]
             ELSE IF llm.action_type = "click-element"
             THEN [url |-> "https://example.com", selector |-> "button",
                   description |-> q]
             ELSE IF llm.action_type = "extract-data"
             THEN [url |-> "https://example.com", selectors |-> << >>]
             ELSE GeneralAction(q),
          action_type |-> llm.action_type,
          reasoning |-> llm.reasoning]

\* AGENT_CONFIGS[agent_key]["endpoint"]
ConfigEndpoint(agent_key) ==
    IF agent_key = "lexi" THEN "/legal/chat"
    ELSE IF agent_key = "juris" THEN "/patent/search"
    ELSE "/action"

\* The request body query_agent builds for lexi and juris.
RequestData(agent_key, q) ==
    IF agent_key = "lexi"
    THEN [question |-> q, use_web_search |-> TRUE, use_local_docs |-> TRUE,
          max_local_results |-> 5, max_web_results |-> 3]
    ELSE [description |-> q, use_web_search |-> TRUE, use_local_corpus |-> TRUE,
          max_local_results |-> 5, max_web_results |-> 5]

\* The AgentResponse query_agent returns for what the agent answered.
AgentResponse(agent_key, q, http) ==
    [agent_name |-> agent_key, input_query |-> q,
     output_response |-> IF http = "200" THEN [answer |-> "json"]
                         ELSE [x \in {} |-> 0],
     success |-> (http = "200"),
     error_message |-> IF http = "200" THEN "none"
                       ELSE IF http = "timeout" THEN "Request timed out"
                       ELSE "HTTP 500"]

\* orchestrate_query up to the call of query_agent: the router picks the
\* agent.
DetermineAgent ==
    /\ orch_pc = "request"
    /\ \E q \in OrchQueries, agent \in Agents :
          /\ request' = [query |-> q]
          /\ selected_agent' = agent
    /\ orch_pc' = "query_agent"
    /\ UNCHANGED <<action_analysis, posted, agent_response>>
    /\ UNCHANGED <<chunkVars, searchVars, buildVars, cleanVars, ingestVars,
                   serveVars, emailChunkVars, wfVars>>

\* query_agent
QueryAgent ==
    /\ orch_pc = "query_agent"
    /\ \E llm \in LlmAnswers, http \in {"200", "500", "timeout"} :
          /\ IF selected_agent = "filora"
             THEN LET analysis == AnalyzeFiloraAction(request.query, llm)
                  IN  /\ action_analysis' = analysis
                      /\ posted' = [url |-> analysis.endpoint,
                                    json |-> analysis.request_data]
             ELSE /\ action_analysis' = NoAnalysis
                  /\ posted' = [url |-> ConfigEndpoint(selected_agent),
                                json |-> RequestData(selected_agent,
                                                     request.query)]
          /\ agent_response' = AgentResponse(selected_agent, request.query, http)
    /\ orch_pc' = "report"
    /\ UNCHANGED <<request, selected_agent>>
    /\ UNCHANGED <<chunkVars, searchVars, buildVars, cleanVars, ingestVars,
                   serveVars, emailChunkVars, wfVars>>

\* orchestrate_query after query_agent: for Filora the analysis is asked
\* for again and put into the response.
AddAnalysis ==
    /\ orch_pc = "report"
    /\ IF selected_agent = "filora"
       THEN \E llm \in LlmAnswers :
               LET analysis == AnalyzeFiloraAction(request.query, llm)
               IN  agent_response' =
                      [agent_response EXCEPT !.output_response =
                          SetItem(@, "filora_action_analysis",
                                  [action_type |-> analysis.action_type,
                                   endpoint |-> analysis.endpoint,
                                   reasoning |-> analysis.reasoning])]
       ELSE UNCHANGED agent_response
    /\ orch_pc' = "responded"
    /\ UNCHANGED <<request, selected_agent, action_analysis, posted>>
    /\ UNCHANGED <<chunkVars, searchVars, buildVars, cleanVars, ingestVars,
                   serveVars, emailChunkVars, wfVars>>

InitOrch ==
    /\ orch_pc = "request"
    /\ request = NoRequest
    /\ selected_agent = "none"
    /\ action_analysis = NoAnalysis
    /\ posted = NothingPosted
    /\ agent_response = NoAgentResponse
    /\ impl = "patent"
    /\ text = EmptyStr
    /\ chunk_size = 1
    /\ overlap = 0
    /\ sentences = << >>
    /\ i = 0
    /\ current_chunk = EmptyStr
    /\ current_size = 0
    /\ chunk_index = 0
    /\ sentence_index = 0
    /\ chunks = << >>
    /\ overlaps = << >>
    /\ current_overlap = EmptyStr
    /\ processed_chunks = << >>
    /\ pdf_path = EmptyStr
    /\ document_name = EmptyStr
    /\ embedding_failed = << >>
    /\ pc = "orchestrate"
    /\ pickle = NoFile
    /\ retriever = NoRetriever
    /\ call = NoCall
    /\ ApiIdle
    /\ BuildIdle
    /\ CleanIdle
    /\ IngestIdle
    /\ ServeIdle
    /\ EmailChunkIdle
    /\ WorkflowIdle

NextOrch ==
    \/ DetermineAgent
    \/ QueryAgent
    \/ AddAnalysis

SpecOrch == InitOrch /\ [][NextOrch]_vars


\* ==================================================== the Donna workflow
\* donna/services.py: run_workflow_sse, the generator behind
\* POST /donna/workflow.  One action per stretch of the generator; a value
\* None of the code is the string "None" here.

InboxId == "donneragent@agentmail.to"
ExpertEmails == {"None", "expert@firm"}

\* _sse(event, data)
Sse(name, data) == [event |-> name, data |-> data]
Status(message) == Sse("status", [message |-> message])
Error(stage) == Sse("error", [stage |-> stage])
NoData == [x \in {} |-> 0]

\* The generator has returned or raised: the stream is over.
StreamOver == wf_pc \in {"returned", "raised"}

\* From the call to the first use of the client: the import of agentmail
\* and the API key.
StartWorkflow ==
    /\ wf_pc = "start"
    /\ \E send \in BOOLEAN, allow \in BOOLEAN,
          setup \in {"ok", "import_agentmail", "config"} :
          /\ send_email' = send
          /\ allow_external' = allow
          /\ IF setup = "ok"
             THEN /\ events' = <<Status("starting_workflow")>>
                  /\ wf_pc' = "create"
             ELSE /\ events' = <<Status("starting_workflow"), Error(setup)>>
                  /\ wf_pc' = "returned"
    /\ UNCHANGED <<message_id, questions_json, expert, sent_flag, outbox>>
    /\ UNCHANGED <<chunkVars, searchVars, buildVars, cleanVars, ingestVars,
                   serveVars, emailChunkVars, orchVars>>

\* The initial message is created in the target inbox.
CreateInitialMessage ==
    /\ wf_pc = "create"
    /\ \E sent \in {"raises", "None", "m1"} :
          IF sent = "raises"
          THEN /\ events' = events \o <<Status("creating_initial_message"),
                                        Error("create_initial_message")>>
               /\ wf_pc' = "returned"
               /\ UNCHANGED <<message_id, outbox>>
          ELSE /\ message_id' = sent
               /\ outbox' = Append(outbox,
                                   [via |-> "inboxes.messages.send",
                                    to |-> InboxId])
               /\ events' = events
                     \o <<Status("creating_initial_message")>>
                     \o (IF sent = "None"
                         THEN <<Sse("warning", NoData)>> ELSE << >>)
                     \o <<Sse("email_created", NoData)>>
               /\ wf_pc' = "title"
    /\ UNCHANGED <<send_email, allow_external, questions_json, expert,
                   sent_flag>>
    /\ UNCHANGED <<chunkVars, searchVars, buildVars, cleanVars, ingestVars,
                   serveVars, emailChunkVars, orchVars>>

\* The case title: generated, or cut from the subject when that fails.
GenerateTitle ==
    /\ wf_pc = "title"
    /\ events' = events \o <<Status("generating_title"), Sse("title", NoData)>>
    /\ wf_pc' = "questions"
    /\ UNCHANGED <<send_email, allow_external, message_id, questions_json,
                   expert, sent_flag, outbox>>
    /\ UNCHANGED <<chunkVars, searchVars, buildVars, cleanVars, ingestVars,
                   serveVars, emailChunkVars, orchVars>>

\* What the model can answer the questions prompt with: text holding a
\* JSON object, text that is JSON of another type (no brace to cut at),
\* text that is not JSON, or no answer.
QuestionAnswers == {"object", "array", "text", "raises"}

\* questions_json after the questions step: json.loads of the answer, of
\* whatever type, when it parses; the initial dict otherwise.
ParsedQuestions(answer) ==
    IF answer = "object" THEN [type |-> "dict", from |-> "llm"]
    ELSE IF answer = "array" THEN [type |-> "list", from |-> "llm"]
    ELSE DefaultQuestions

GenerateQuestions ==
    /\ wf_pc = "questions"
    /\ \E answer \in QuestionAnswers :
          questions_json' = ParsedQuestions(answer)
    /\ events' = events \o <<Status("generating_questions"),
                             Sse("questions", NoData)>>
    /\ wf_pc' = "expert"
    /\ UNCHANGED <<send_email, allow_external, message_id, expert, sent_flag,
                   outbox>>
    /\ UNCHANGED <<chunkVars, searchVars, buildVars, cleanVars, ingestVars,
                   serveVars, emailChunkVars, orchVars>>

\* _select_expert_via_llm: an expert with an address, or the fallback's
\* expert, whose address may be None.
SelectExpert ==
    /\ wf_pc = "expert"
    /\ \E email \in ExpertEmails : expert' = [email |-> email]
    /\ events' = events \o <<Status("selecting_expert"),
                             Sse("expert_selected", NoData)>>
    /\ wf_pc' = "draft"
    /\ UNCHANGED <<send_email, allow_external, message_id, questions_json,
                   sent_flag, outbox>>
    /\ UNCHANGED <<chunkVars, searchVars, buildVars, cleanVars, ingestVars,
                   serveVars, emailChunkVars, orchVars>>

\* The draft: the prompt is built from questions_json.get(...) outside any
\* try, so a questions_json that is no dict raises out of the generator.
DraftEmail ==
    /\ wf_pc = "draft"
    /\ IF questions_json.type = "dict"
       THEN /\ events' = events \o <<Status("drafting_email"),
                                     Sse("email_draft", NoData)>>
            /\ wf_pc' = "send"
       ELSE /\ events' = events \o <<Status("drafting_email")>>
            /\ wf_pc' = "raised"
    /\ UNCHANGED <<send_email, allow_external, message_id, questions_json,
                   expert, sent_flag, outbox>>
    /\ UNCHANGED <<chunkVars, searchVars, buildVars, cleanVars, ingestVars,
                   serveVars, emailChunkVars, orchVars>>

\* The ways the client offers to send: client.messages.send, the reply on
\* the inbox, or neither.
SendMethods == {"messages.send", "inboxes.messages.reply", "none"}

\* The send step: skipped, saved as an internal draft, or sent to the
\* expert.
SendExpertEmail ==
    /\ wf_pc = "send"
    /\ \E method \in SendMethods, raises \in BOOLEAN :
          IF ~send_email \/ expert.email = "None"
          THEN /\ events' = events
                     \o <<Status("skipping_send_expert_email")>>
               /\ UNCHANGED <<sent_flag, outbox>>
          ELSE IF ~allow_external
          THEN /\ events' = events
                     \o <<Status("external_email_blocked_saving_internal")>>
                     \o (IF raises THEN <<Error("save_internal_draft")>>
                         ELSE <<Sse("internal_saved", NoData)>>)
               /\ outbox' = IF raises THEN outbox
                            ELSE Append(outbox,
                                        [via |-> "inboxes.messages.send",
                                         to |-> "None"])
               /\ UNCHANGED sent_flag
          ELSE LET via == IF method = "messages.send" THEN method
                          ELSE IF method = "inboxes.messages.reply"
                                  /\ message_id # "None" THEN method
                          ELSE "none"
               IN  IF via = "none" \/ raises
                   THEN /\ events' = events \o <<Error("send_email")>>
                        /\ UNCHANGED <<sent_flag, outbox>>
                   ELSE /\ outbox' = Append(outbox, [via |-> via,
                                                     to |-> expert.email])
                        /\ sent_flag' = TRUE
                        /\ events' = events \o <<Sse("email_sent", NoData)>>
    /\ wf_pc' = "reply"
    /\ UNCHANGED <<send_email, allow_external, message_id, questions_json,
                   expert>>
    /\ UNCHANGED <<chunkVars, searchVars, buildVars, cleanVars, ingestVars,
                   serveVars, emailChunkVars, orchVars>>

\* The simulated reply of the expert.
SimulateExpertReply ==
    /\ wf_pc = "reply"
    /\ events' = events \o <<Status("simulating_expert_reply"),
                             Sse("expert_reply", NoData)>>
    /\ wf_pc' = "memo"
    /\ UNCHANGED <<send_email, allow_external, message_id, questions_json,
                   expert, sent_flag, outbox>>
    /\ UNCHANGED <<chunkVars, searchVars, buildVars, cleanVars, ingestVars,
                   serveVars, emailChunkVars, orchVars>>

\* The internal memo, and the end of the stream.
DraftInternalMemo ==
    /\ wf_pc = "memo"
    /\ events' = events \o <<Status("drafting_internal_memo"),
                             Sse("memo", NoData),
                             Sse("done", [sent |-> sent_flag])>>
    /\ wf_pc' = "returned"
    /\ UNCHANGED <<send_email, allow_external, message_id, questions_json,
                   expert, sent_flag, outbox>>
    /\ UNCHANGED <<chunkVars, searchVars, buildVars, cleanVars, ingestVars,
                   serveVars, emailChunkVars, orchVars>>

InitWorkflow ==
    /\ wf_pc = "start"
    /\ events = << >>
    /\ send_email = FALSE
    /\ allow_external = FALSE
    /\ message_id = "None"
    /\ questions_json = DefaultQuestions
    /\ expert = [email |-> "None"]
    /\ sent_flag = FALSE
    /\ outbox = << >>
    /\ impl = "patent"
    /\ text = EmptyStr
    /\ chunk_size = 1
    /\ overlap = 0
    /\ sentences = << >>
    /\ i = 0
    /\ current_chunk = EmptyStr
    /\ current_size = 0
    /\ chunk_index = 0
    /\ sentence_index = 0
    /\ chunks = << >>
    /\ overlaps = << >>
    /\ current_overlap = EmptyStr
    /\ processed_chunks = << >>
    /\ pdf_path = EmptyStr
    /\ document_name = EmptyStr
    /\ embedding_failed = << >>
    /\ pc = "workflow"
    /\ pickle = NoFile
    /\ retriever = NoRetriever
    /\ call = NoCall
    /\ ApiIdle
    /\ BuildIdle
    /\ CleanIdle
    /\ IngestIdle
    /\ ServeIdle
    /\ EmailChunkIdle
    /\ OrchIdle

NextWorkflow ==
    \/ StartWorkflow
    \/ CreateInitialMessage
    \/ GenerateTitle
    \/ GenerateQuestions
    \/ SelectExpert
    \/ DraftEmail
    \/ SendExpertEmail
    \/ SimulateExpertReply
    \/ DraftInternalMemo

SpecWorkflow == InitWorkflow /\ [][NextWorkflow]_vars


\* ================================================ retriever properties

SearchCalled == call.op = "search"
SearchReturned == SearchCalled /\ call.outcome = "returned"
CollaboratorAnswered == SearchCalled /\ call.query_embedding # << >>
\* A call no guard on the arguments could object to.
ProperArguments == call.query # EmptyStr /\ call.top_k >= 1

ReturnedIds == {call.results[r].chunk_id : r \in 1..Len(call.results)}

\* The similarity the loaded matrix gives chunk k for the query of the call.
ChunkSimilarity(k) ==
    Similarity(call.query_embedding, retriever.embeddings.rows[k])

\* C1: on a loaded knowledge base of N >= 1 chunks and for top_k >= 1, a
\* search whose query was embedded (into the dimension of the matrix)
\* returns exactly min(top_k, N) results, each a distinct chunk of the
\* knowledge base with its own similarity, in non-increasing order of
\* similarity, and no chunk left out is more similar than a returned one.
TopKCorrect ==
    (/\ CollaboratorAnswered
     /\ call.top_k >= 1
     /\ Len(retriever.chunks) >= 1
     /\ MatrixAccepts(retriever.embeddings, call.query_embedding)) =>
        /\ call.outcome = "returned"
        /\ Len(call.results) = Min(call.top_k, Len(retriever.chunks))
        /\ \A a, b \in 1..Len(call.results) :
              a < b => /\ call.results[a].chunk_id # call.results[b].chunk_id
                       /\ SimLeq(call.results[b].similarity,
                                 call.results[a].similarity)
        /\ \A r \in 1..Len(call.results) :
              \E k \in 1..Len(retriever.chunks) :
                 call.results[r] = SearchResult(retriever.chunks[k],
                                                ChunkSimilarity(k))
        /\ \A k \in 1..Len(retriever.chunks), r \in 1..Len(call.results) :
              retriever.chunks[k].chunk_id \notin ReturnedIds
              => ~SimLess(call.results[r].similarity, ChunkSimilarity(k))

\* A search that had to cut: fewer results than chunks, and the chunk left
\* out is strictly less similar than the one returned.
TopKWitness ==
    /\ SearchReturned
    /\ call.query # EmptyStr
    /\ call.top_k = 1
    /\ Len(retriever.chunks) = MaxChunks
    /\ Len(call.results) = 1
    /\ \E k \in 1..Len(retriever.chunks) :
          SimLess(ChunkSimilarity(k), call.results[1].similarity)

\* C2: a search on a knowledge base of zero chunks returns the empty list
\* and raises nothing (stated for the searches with a non-empty query that
\* was embedded and a positive top_k, where nothing else can fail).
EmptyKnowledgeBaseReturnsEmpty ==
    (CollaboratorAnswered /\ ProperArguments /\ Len(retriever.chunks) = 0) =>
        (call.outcome = "returned" /\ call.results = << >>)

\* C3: a search with a non-positive top_k never returns a non-empty list
\* (stated for a non-empty query).
NonPositiveTopKReturnsNothing ==
    (SearchCalled /\ call.query # EmptyStr /\ call.top_k <= 0) =>
        call.results = << >>

\* C4: a search with the empty query is rejected by the retriever itself:
\* the embedding collaborator is not called and nothing is returned.
EmptyQueryRejected ==
    (SearchCalled /\ call.query = EmptyStr) =>
        (call.collaborator_calls = 0 /\ call.outcome # "returned")

\* C5: returned chunks of equal similarity come in all_chunks order, and of
\* two equally similar chunks of which one is cut, the lower index is kept
\* (stated for a non-empty query and top_k >= 1).
TiesInChunkOrder ==
    (SearchReturned /\ ProperArguments) =>
        /\ \A a, b \in 1..Len(call.results) :
              (a < b /\ SimEq(call.results[a].similarity,
                              call.results[b].similarity))
              => call.results[a].metadata.chunk_index
                     < call.results[b].metadata.chunk_index
        /\ \A k \in 1..Len(retriever.chunks), r \in 1..Len(call.results) :
              (/\ retriever.chunks[k].chunk_id \notin ReturnedIds
               /\ SimEq(call.results[r].similarity, ChunkSimilarity(k)))
              => call.results[r].metadata.chunk_index
                     < retriever.chunks[k].metadata.chunk_index

\* C6: from a pickle in which two chunks have embeddings of different
\* lengths no retriever instance is ever produced.
RaggedPickleNeverLoaded ==
    IsRagged(EmbeddingRows(pickle.all_chunks)) => retriever = NoRetriever

\* C7: no search result is ever computed on a knowledge base whose recorded
\* embedding_model differs from the retriever's.
ModelMismatchRefused ==
    (SearchReturned /\ ProperArguments /\ call.results # << >>) =>
        retriever.knowledge_base.metadata.embedding_model
            = retriever.embedding_model

\* ================================================= chunker properties

ChunkerReturned == pc \in {"embed", "done"}

IsPrefix(p, s) == Len(p) <= Len(s) /\ SubSeq(s, 1, Len(p)) = p

\* A chunk's text without the overlap it was seeded with.
RemoveOverlap(t, seed) == Strip(From(t, Len(LStrip(seed))))

RECURSIVE NewSentences(_, _, _)
NewSentences(cs, seeds, k) ==
    IF k > Len(cs) THEN << >>
    ELSE SplitSentences(RemoveOverlap(cs[k].text, seeds[k]))
         \o NewSentences(cs, seeds, k + 1)

\* C8: every chunk that contains no single sentence longer than chunk_size
\* has a text of at most chunk_size characters.
ChunkSizeBound ==
    \A k \in 1..Len(chunks) :
        (\A n \in 1..Len(SplitSentences(chunks[k].text)) :
            Len(SplitSentences(chunks[k].text)[n]) <= chunk_size)
        => Len(chunks[k].text) <= chunk_size

\* C9: for a clean text the chunker loses nothing: each chunk starts with
\* the overlap it was seeded with, and the chunks in index order, overlap
\* removed, give back the sentences of the text, in order, each once.
ChunkingCoverage ==
    (ChunkerReturned /\ IsCleanText(text) /\ overlap < chunk_size) =>
        /\ \A k \in 1..Len(chunks) : IsPrefix(LStrip(overlaps[k]), chunks[k].text)
        /\ IF text = EmptyStr THEN chunks = << >>
           ELSE NewSentences(chunks, overlaps, 1) = SplitSentences(text)

ChunkingCoverageWitness ==
    /\ pc = "done"
    /\ IsCleanText(text)
    /\ Len(chunks) >= 3
    /\ overlaps[2] # EmptyStr

\* C10: the chunks carry the indexes 0, 1, ..., n-1 in emission order, and
\* process_document keeps that index in metadata.chunk_index.
ChunkIndexContiguous ==
    /\ \A k \in 1..Len(chunks) : chunks[k].index = k - 1
    /\ \A k \in 1..Len(processed_chunks) :
          /\ processed_chunks[k].metadata.chunk_index = k - 1
          /\ processed_chunks[k].text = chunks[k].text

ChunkIndexWitness ==
    /\ pc = "done"
    /\ Len(processed_chunks) >= 3


\* ========================================= knowledge-base build properties

BuildReturned == pc \in {"save", "exit"} /\ knowledge_base # NoKnowledgeBase

\* C11: no two chunks of all_chunks share a chunk_id, and the chunk_id of a
\* chunk is the one its document_name and its chunk index give.
ChunkIdsUnique ==
    /\ \A a, b \in 1..Len(all_chunks) :
          a # b => all_chunks[a].chunk_id # all_chunks[b].chunk_id
    /\ \A a \in 1..Len(all_chunks) :
          all_chunks[a].chunk_id = ChunkId(all_chunks[a].document_name,
                                           all_chunks[a].metadata.chunk_index)

\* The files of a listing that process_document does not skip.
WithText(files) == SelectSeq(files, LAMBDA f : f.raw_text # EmptyStr)

RECURSIVE ChunksOf(_)
ChunksOf(documents) ==
    IF documents = << >> THEN << >>
    ELSE Head(documents).chunks \o ChunksOf(Tail(documents))

RECURSIVE TotalChunks(_)
TotalChunks(documents) ==
    IF documents = << >> THEN 0
    ELSE Len(Head(documents).chunks) + TotalChunks(Tail(documents))

\* C12: all_chunks is the concatenation of the chunk lists of the documents,
\* in document order and within a document in chunk-index order, so its
\* length is the sum of theirs; the documents are the files with text that
\* the loop has passed, in listing order, a skipped file adding nothing.
AllChunksConcatenated ==
    /\ all_chunks = ChunksOf(all_documents)
    /\ Len(all_chunks) = TotalChunks(all_documents)
    /\ \A d \in 1..Len(all_documents) :
          /\ all_documents[d].total_chunks = Len(all_documents[d].chunks)
          /\ \A k \in 1..Len(all_documents[d].chunks) :
                all_documents[d].chunks[k].metadata.chunk_index = k - 1
    /\ LET passed == WithText(SubSeq(pdf_files, 1, file_index))
       IN  /\ Len(all_documents) = Len(passed)
           /\ \A d \in 1..Len(passed) :
                 all_documents[d].document_path = passed[d].name
    /\ BuildReturned =>
          /\ knowledge_base.all_chunks = ChunksOf(knowledge_base.documents)
          /\ knowledge_base.metadata.total_chunks
                = TotalChunks(knowledge_base.documents)
          /\ Len(knowledge_base.documents) = Len(WithText(pdf_files))

\* A skipped file followed by a file of two chunks.
AllChunksConcatenatedWitness ==
    /\ pc = "exit"
    /\ outcome = "returned"
    /\ Len(pdf_files) = 2
    /\ pdf_files[1].raw_text = EmptyStr
    /\ Len(pickle.documents) = 1
    /\ Len(pickle.all_chunks) = 2

FailureCount == Cardinality({k \in 1..Len(all_failed) : all_failed[k]})

\* C13: a chunk whose embedding call failed is still emitted, with the zero
\* vector of length embedding_dimension; the other chunks and documents are
\* processed all the same and the build returns a knowledge base.
EmbeddingFailureAbsorbed ==
    /\ Len(embedding_failed) = Len(processed_chunks)
    /\ Len(all_failed) = Len(all_chunks)
    /\ \A k \in 1..Len(processed_chunks) :
          embedding_failed[k] =>
              /\ Len(processed_chunks[k].embedding) = Dim
              /\ \A d \in 1..Dim : processed_chunks[k].embedding[d] = 0
    /\ \A k \in 1..Len(all_chunks) :
          all_failed[k] =>
              /\ Len(all_chunks[k].embedding) = Dim
              /\ \A d \in 1..Dim : all_chunks[k].embedding[d] = 0
    /\ pc = "done" =>
          /\ Len(processed_chunks) = Len(chunks)
          /\ \A k \in 1..Len(chunks) : processed_chunks[k].text = chunks[k].text
    /\ (pc = "exit" /\ FailureCount > 0) =>
          /\ BuildReturned
          /\ outcome \in {"returned", "OSError"}
          /\ Len(knowledge_base.documents) = Len(WithText(pdf_files))
          /\ Len(knowledge_base.all_chunks) = Len(all_failed)

\* A failed chunk in the first document, and a chunk embedded after it in
\* the second.
EmbeddingFailureWitness ==
    /\ pc = "exit"
    /\ outcome = "returned"
    /\ Len(pickle.documents) = 2
    /\ Len(pickle.all_chunks) >= 2
    /\ all_failed[1]
    /\ ~all_failed[Len(all_failed)]
    /\ pickle.all_chunks[Len(all_failed)].embedding # ZeroVector

\* C14: the embedding failures a build absorbed show in what it returns:
\* KnowledgeBaseMetadata of the documents is what a build without any
\* failure returns for them, and a build with failures returns something
\* else.
EmbeddingFailuresReported ==
    (BuildReturned /\ FailureCount > 0) =>
        knowledge_base.metadata
            # KnowledgeBaseMetadata(knowledge_base.documents,
                                    knowledge_base.all_chunks)

\* C15: when the directory does not exist or lists no *.pdf, the build
\* raises FileNotFoundError with no document processed, and no knowledge
\* base is returned or written.
ConfigurationErrorRaises ==
    (~directory.exists \/ Glob(directory.entries) = << >>) =>
        /\ pc \in {"main", "exit"}
        /\ pc = "exit" => outcome = "FileNotFoundError"
        /\ pdf_path = EmptyStr
        /\ processed_chunks = << >>
        /\ all_documents = << >>
        /\ knowledge_base = NoKnowledgeBase
        /\ pickle = NoFile

\* An existing directory whose only entry is not a *.pdf.
ConfigurationErrorWitness ==
    /\ pc = "exit"
    /\ outcome = "FileNotFoundError"
    /\ directory.exists
    /\ Len(directory.entries) = 1


\* ============================================= retriever properties (2)

IsZero(v) == \A d \in 1..Len(v) : v[d] = 0

\* The results of the call that stand for a chunk with an all-zero embedding.
ZeroChunkResults ==
    {r \in 1..Len(call.results) :
        \E k \in 1..Len(retriever.chunks) :
            /\ retriever.chunks[k].chunk_id = call.results[r].chunk_id
            /\ IsZero(retriever.chunks[k].embedding)}

\* C16: a search whose query was embedded into the dimension of the matrix
\* returns, and in what it returns a chunk with an all-zero embedding has a
\* similarity that is a number (a non-zero denominator) and is 0; so has
\* every chunk when the query vector is all zeros.
ZeroEmbeddingScoresZero ==
    (CollaboratorAnswered /\ MatrixAccepts(retriever.embeddings,
                                           call.query_embedding)) =>
        /\ call.outcome = "returned"
        /\ \A r \in 1..Len(call.results) :
              /\ call.results[r].similarity.d2 > 0
              /\ (r \in ZeroChunkResults \/ IsZero(call.query_embedding))
                 => call.results[r].similarity.n = 0

\* A non-zero query against a zero chunk and a chunk it is similar to.
ZeroEmbeddingWitness ==
    /\ SearchReturned
    /\ ~IsZero(call.query_embedding)
    /\ ZeroChunkResults # {}
    /\ \E r \in 1..Len(call.results) : call.results[r].similarity.n > 0

\* C17: once loaded the retriever never changes: no search and no handler
\* that consumes search results (get_local_context, process_legal_query,
\* get_local_similar_patents) alters knowledge_base, chunks (texts, ids,
\* metadata) or embeddings.
RetrieverUnchanged ==
    [][retriever # NoRetriever => retriever' = retriever]_vars

\* process_legal_query has stored a summary for each of two results.
RetrieverUnchangedWitness ==
    /\ handler = [name |-> "process_legal_query", stage |-> "respond"]
    /\ Len(local_context) = 2
    /\ local_context[1].summary # EmptyStr
    /\ local_context[1].metadata = retriever.chunks[ChunkOf(1)].metadata


\* ================================================== cleaning properties

\* C18: cleaning a cleaned text changes nothing, for clean_patent_text and
\* for clean_text.
CleaningIdempotent ==
    Len(cleaned) = 2 => cleaned[2] = cleaned[1]


\* ============================================= chunker properties (2)

\* C19: no emitted chunk is shorter than MinChunkLength characters.
NoShortChunk ==
    \A k \in 1..Len(chunks) : Len(chunks[k].text) >= MinChunkLength

\* ================================================= ingestion properties

\* How many times the document d stands in the queue.
QueuedCount(d) ==
    Cardinality({k \in 1..Len(doc_queue) :
                    doc_queue[k] # None /\ doc_queue[k].id = d})

\* The places (worker, position) where the document d is held in a batch.
HeldAt(d) ==
    {h \in (1..Concurrency) \X (1..EmbedBatchSize) :
        /\ h[2] <= Len(workers[h[1]].batch)
        /\ workers[h[1]].batch[h[2]].id = d}

\* The document b, of a batch, carries nothing or the vector of its own
\* content, and is otherwise the document that was enqueued.
CarriesOwnEmbedding(b) ==
    /\ b.embedding \in {NoEmbedding, Embedding(b.content)}
    /\ [b EXCEPT !.embedding = NoEmbedding] = email_chunks[b.id]

\* C20: every document put on the queue is in the queue or was taken by
\* exactly one worker, once, and never both; no document is taken before it
\* is put; once every worker has exited every document was taken exactly
\* once.  A document in a worker's batch or in a stored batch carries no
\* embedding or the vector of its own content, and after a successful
\* attempt (the first or a later one) every document of the batch carries
\* the vector of its own content.
EachDocumentOneWorkerOwnEmbedding ==
    /\ \A d \in 1..Len(email_chunks) :
          /\ IF d < producer.next
             THEN QueuedCount(d) + Len(taken[d]) = 1
             ELSE QueuedCount(d) = 0 /\ taken[d] = << >>
          /\ Cardinality(HeldAt(d)) <= 1
          /\ \A h \in HeldAt(d) : taken[d] = <<h[1]>>
          /\ (\A w \in 1..Concurrency : workers[w].pc = "exited")
                => Len(taken[d]) = 1
    /\ \A w \in 1..Concurrency :
          \A k \in 1..Len(workers[w].batch) :
             /\ CarriesOwnEmbedding(workers[w].batch[k])
             /\ (workers[w].pc = "yield" /\ workers[w].attempt < EmbedAttempts)
                   => workers[w].batch[k].embedding
                         = Embedding(workers[w].batch[k].content)
    /\ \A s \in 1..Len(convex_docs) :
          \A k \in 1..Len(convex_docs[s]) :
             /\ CarriesOwnEmbedding(convex_docs[s][k])
             /\ convex_docs[s][k].embedding # NoEmbedding

\* Witness for C20: with another worker waiting on the queue, a worker has
\* taken two documents of different contents in one batch and, on a retry,
\* attached to each the vector of its own content and stored the batch.
ConcurrentRetryWitness ==
    \E w, v \in 1..Concurrency :
        /\ w # v
        /\ workers[w].pc = "yield"
        /\ workers[w].attempt \in 1..(EmbedAttempts - 1)
        /\ Len(workers[w].batch) = 2
        /\ workers[w].batch[1].content # workers[w].batch[2].content
        /\ workers[w].batch[2].embedding = Embedding(workers[w].batch[2].content)
        /\ workers[w].batch[1].embedding = Embedding(workers[w].batch[1].content)
        /\ workers[v].pc = "get"
        /\ convex_docs = <<workers[w].batch>>

\* ======================================================= API properties

\* C21: once the patent knowledge base is loaded, POST /patent/search with
\* use_local_corpus searches the retriever that GET /patent/search-local
\* uses, and its local results are not empty when that retriever has chunks.
PatentSearchUsesLoadedRetriever ==
    [][(/\ impl = "patent"
        /\ response' # response
        /\ response'.endpoint = "search"
        /\ response'.use_local_corpus
        /\ retriever # NoRetriever) =>
            /\ service_retriever = retriever
            /\ Len(retriever.chunks) >= 1 => response'.local_results # << >>]_vars

\* The instance is whole: its chunk list and its matrix come from the one
\* knowledge base it holds.
IsWhole(instance) ==
    /\ instance.chunks = instance.knowledge_base.all_chunks
    /\ instance.embeddings.rows = EmbeddingRows(instance.chunks)

\* C23: in every order of searches, reloads and changes of the file, a
\* search that returns reads one whole instance, the one in service when it
\* was called: each result is a chunk of that instance with the similarity
\* of the query to that chunk's own embedding.
SearchesFromOneInstance ==
    [][(/\ call' # call
        /\ call'.op = "search"
        /\ call'.outcome = "returned") =>
            /\ retriever # NoRetriever
            /\ IsWhole(retriever)
            /\ \A r \in 1..Len(call'.results) :
                  \E k \in 1..Len(retriever.chunks) :
                     call'.results[r] =
                        SearchResult(retriever.chunks[k],
                                     Similarity(call'.query_embedding,
                                                retriever.chunks[k].embedding))]_vars

\* Witness for C23: after a reload that replaced a loaded retriever by
\* another build, and with the file changed again since, a local search
\* has returned every chunk of the instance in service.
SearchAfterSwapWitness ==
    /\ swapped
    /\ retriever # NoRetriever
    /\ pickle # retriever.knowledge_base
    /\ response.endpoint = "search-local"
    /\ response.status = 200
    /\ response.results = call.results
    /\ Len(response.results) = MaxChunks
    /\ response.results[1].similarity # response.results[2].similarity

\* C24: a reload that finds no readable knowledge base answers 500 and
\* leaves the global retriever as it was; a loaded retriever is never
\* replaced by None or by an instance that is not whole.
FailedReloadKeepsRetriever ==
    [][/\ (/\ app = "serving"
           /\ response' # response
           /\ response'.endpoint = "reload"
           /\ pickle \in {NoFile, Unreadable}) =>
               /\ response'.status = 500
               /\ retriever' = retriever
       /\ retriever # NoRetriever =>
               /\ retriever' # NoRetriever
               /\ IsWhole(retriever')]_vars

\* Witness for C24: a reload has failed on a missing file and the retriever
\* loaded before is in service.
FailedReloadWitness ==
    /\ response = [endpoint |-> "reload", status |-> 500]
    /\ pickle = NoFile
    /\ retriever # NoRetriever
    /\ Len(retriever.chunks) = MaxChunks

\* C26: POST /legal/chat with an empty or blank question is answered with
\* status 400, and no retrieval, web search or LLM call was made for it.
BlankQuestionRejected ==
    (response.endpoint = "chat" /\ Strip(response.question) = EmptyStr) =>
        /\ response.status = 400
        /\ response.calls = {}

\* C22: once the producer has put one sentinel per worker, every worker
\* exits and the count of unfinished tasks reaches 0, which is when
\* doc_queue.join() returns and run_ingestion goes on to gather the
\* workers and print_final_stats.
CleanShutdown ==
    (producer.pc = "join") ~>
        (/\ \A w \in 1..Concurrency : workers[w].pc = "exited"
         /\ unfinished_tasks = 0)

\* The number of chunk documents in the batches Convex accepted.
RECURSIVE StoredCount(_)
StoredCount(batches) ==
    IF batches = << >> THEN 0
    ELSE Len(Head(batches)) + StoredCount(Tail(batches))

\* The documents a worker took and is done with, stored or not.
Settled ==
    {d \in 1..Len(email_chunks) :
        /\ taken[d] # << >>
        /\ \A w \in 1..Concurrency :
              workers[w].pc = "embed" =>
                 \A k \in 1..Len(workers[w].batch) : workers[w].batch[k].id # d}

\* C28: embedded_chunks is the number of chunks embedded and stored in
\* Convex; the chunks of a batch whose store failed or that was abandoned
\* after its attempts are counted in errors instead.
EmbeddedChunksAreStored ==
    /\ embedded_chunks = StoredCount(convex_docs)
    /\ errors = Cardinality(Settled) - StoredCount(convex_docs)

\* ===================================================== overlap properties

\* The summed length of the n sentences that end with the idx-th.
RECURSIVE RunLength(_, _, _)
RunLength(sents, idx, n) ==
    IF n = 0 THEN 0
    ELSE Len(sents[idx]) + RunLength(sents, idx - 1, n - 1)

\* The longest run of sentences ending with the idx-th whose summed length
\* is at most ov.
LongestRun(sents, idx, ov) ==
    LET n == CHOOSE m \in 0..idx :
                /\ RunLength(sents, idx, m) <= ov
                /\ m < idx => RunLength(sents, idx, m + 1) > ov
    IN  SubSeq(sents, idx - n + 1, idx)

\* C25: in chunk_patent_text with overlap > 0, when a chunk is closed before
\* sentence i (0-based; it is then i of the sentences that are behind), the
\* next chunk is seeded with the longest run of sentences ending at
\* sentence i-1 whose summed length is at most overlap.
OverlapSeedIsLongestRun ==
    [][(/\ impl = "patent"
        /\ pc = "loop"
        /\ i' = i + 1
        /\ Len(chunks') = Len(chunks) + 1
        /\ overlap > 0) =>
            LET run == LongestRun(sentences, i, overlap)
            IN  current_overlap' = IF run = << >> THEN EmptyStr
                                   ELSE Join(run) \o <<" ">>]_vars

\* C29: chunk_text terminates for every text and every 0 <= OVERLAP_SIZE <
\* CHUNK_SIZE: the start position strictly advances from one iteration of
\* its loop, which appends one chunk, to the next.
StartAdvances ==
    [][(pc = "loop" /\ Len(chunks') = Len(chunks) + 1) => start_pos' > start_pos]_vars

\* ================================================ orchestrator properties

\* C27: for the Filora agent, the filora_action_analysis of the response is
\* the analysis query_agent acted on: its endpoint is the one that was
\* posted to, and its action_type and reasoning are those of the analysis
\* the posted request body was built from.
ReportedAnalysisWasUsed ==
    (orch_pc = "responded" /\ selected_agent = "filora") =>
        LET reported == agent_response.output_response.filora_action_analysis
        IN  /\ reported.endpoint = posted.url
            /\ reported.action_type = action_analysis.action_type
            /\ reported.reasoning = action_analysis.reasoning

\* ==================================================== workflow properties

\* A message went out to the selected expert's address.
SentToExpert ==
    \E k \in DOMAIN outbox :
        outbox[k].via \in {"messages.send", "inboxes.messages.reply"}

\* An e-mail goes to the expert only when send_email is true, the expert
\* has an address and external e-mail is allowed.
ExternalSendOnlyWhenAllowed ==
    SentToExpert =>
        send_email /\ expert.email # "None" /\ allow_external

\* done carries sent = true exactly when email_sent came before it.
DoneSentIffEmailSent ==
    \A k \in DOMAIN events :
        events[k].event = "done" =>
            (events[k].data.sent <=>
                \E j \in 1..(k - 1) : events[j].event = "email_sent")

\* A stream that got past the creation of the initial message ends with
\* done.
DoneIsLast ==
    (StreamOver /\ \E k \in DOMAIN events : events[k].event = "email_created")
        => events[Len(events)].event = "done"

\* C30: in run_workflow_sse an e-mail goes to the expert's address only
\* when send_email is true, the expert has an address and
\* ALLOW_EXTERNAL_EMAIL is on; done carries sent = true exactly when an
\* email_sent event came earlier in the stream; and done is the last event
\* of every stream that got past the creation of the initial message.
WorkflowStreamClaim ==
    /\ ExternalSendOnlyWhenAllowed
    /\ DoneSentIffEmailSent
    /\ DoneIsLast

====
